---------------------------- MODULE Spec2Model ----------------------------
(***************************************************************************)
(* Model of the Graph API group watcher (fb_group_graph_api_downloader.py).*)
(*                                                                         *)
(* A Python str is modelled as a sequence of one-character strings, so     *)
(* that str(), sorted(), json.dump and json.load are computed character by *)
(* character.  The state file is a file-system entry holding such a text.  *)
(***************************************************************************)
EXTENDS Integers, Sequences, FiniteSets, TLC

(***************************************************************************)
(* Bounds of the model.                                                    *)
(***************************************************************************)
MaxBatch == 3       \* posts in a batch, single run of run_once
MaxPollBatch == 2   \* posts in a batch, polling loop
MaxCycles == 2      \* cycles of the polling loop
MaxPartial == 1     \* characters an interrupted write leaves behind
MaxSaveLen == 2     \* ids handed to save_seen_posts in the store round trip
NumInstances == 2   \* watchers started on one state file
MaxAtts == 2        \* attachment records of a post
MaxArticles == 2    \* article containers on a page
MaxImages == 2      \* image urls of a post
MaxClicks == 2      \* clicks on Start Scrape
MaxSource == 3      \* posts get_posts yields
MaxLimit == 2       \* max_posts
MaxNumLen == 3     \* most characters of FB_POLL_INTERVAL_SEC and FB_PAGE_SIZE
MaxGiven == 2      \* most posts handed to download_images_for_posts

(***************************************************************************)
(* Characters and strings.                                                 *)
(***************************************************************************)
QUOTE == "\""
BSLASH == "\\"
NL == "\n"

Digit == <<"0", "1", "2", "3", "4", "5", "6", "7", "8", "9">>

\* ord(c): the code point of a character
Code(c) ==
  CASE c = NL -> 10
    [] c = " " -> 32
    [] c = QUOTE -> 34
    [] c = "," -> 44
    [] c = ":" -> 58
    [] c \in {Digit[k] : k \in 1..10} -> 47 + (CHOOSE k \in 1..10 : Digit[k] = c)
    [] c = "N" -> 78
    [] c = "[" -> 91
    [] c = BSLASH -> 92
    [] c = "]" -> 93
    [] c = "a" -> 97
    [] c = "e" -> 101
    [] c = "l" -> 108
    [] c = "n" -> 110
    [] c = "o" -> 111
    [] c = "u" -> 117
    [] c = "{" -> 123
    [] c = "}" -> 125

IsDigit(c) == c \in {Digit[k] : k \in 1..10}

DigitVal(c) == Code(c) - 48

\* str.__lt__: lexicographic comparison by code point
RECURSIVE StrLess(_, _)
StrLess(a, b) ==
  IF b = <<>> THEN FALSE
  ELSE IF a = <<>> THEN TRUE
  ELSE IF Code(Head(a)) # Code(Head(b)) THEN Code(Head(a)) < Code(Head(b))
  ELSE StrLess(Tail(a), Tail(b))

\* str(n) for a non-negative int
RECURSIVE IntToStr(_)
IntToStr(n) ==
  IF n < 10 THEN <<Digit[n + 1]>>
  ELSE Append(IntToStr(n \div 10), Digit[(n % 10) + 1])

(***************************************************************************)
(* JSON values: a string, a number or null; "missing" stands for a key     *)
(* that the enclosing map does not have.                                   *)
(***************************************************************************)
JStr(s) == [t |-> "str", s |-> s, n |-> 0]
JInt(n) == [t |-> "int", s |-> <<>>, n |-> n]
JNull == [t |-> "null", s |-> <<>>, n |-> 0]
JMissing == [t |-> "missing", s |-> <<>>, n |-> 0]

\* str(x)
PyStr(x) ==
  CASE x.t = "str" -> x.s
    [] x.t = "int" -> IntToStr(x.n)
    [] x.t = "null" -> <<"N", "o", "n", "e">>

\* str.isspace of a character
IsSpace(c) == c \in {" ", NL}

\* b.startswith(a)
IsPrefix(a, b) == Len(a) <= Len(b) /\ a = SubSeq(b, 1, Len(a))

\* set(xs)
SetOf(xs) == {xs[k] : k \in 1..Len(xs)}

\* sorted(S) for a set of str
RECURSIVE Sorted(_)
Sorted(S) ==
  IF S = {} THEN <<>>
  ELSE LET m == CHOOSE x \in S : \A y \in S \ {x} : StrLess(x, y)
       IN <<m>> \o Sorted(S \ {m})

(***************************************************************************)
(* json.dump(list of str, ensure_ascii=False, indent=2)                    *)
(***************************************************************************)
\* the escaping left out
JsonEscapeNone(s) == s

RECURSIVE JsonEscape(_)
JsonEscape(s) ==
  IF s = <<>> THEN <<>>
  ELSE LET c == Head(s)
           e == IF c = QUOTE THEN <<BSLASH, QUOTE>>
                ELSE IF c = BSLASH THEN <<BSLASH, BSLASH>>
                ELSE IF c = NL THEN <<BSLASH, "n">>
                ELSE <<c>>
       IN e \o JsonEscape(Tail(s))

JsonQuote(s) == <<QUOTE>> \o JsonEscape(s) \o <<QUOTE>>

RECURSIVE JsonItems(_)
JsonItems(xs) ==
  IF xs = <<>> THEN <<>>
  ELSE <<" ", " ">> \o JsonQuote(Head(xs))
       \o (IF Len(xs) > 1 THEN <<",", NL>> ELSE <<NL>>)
       \o JsonItems(Tail(xs))

JsonDump(xs) ==
  IF xs = <<>> THEN <<"[", "]">>
  ELSE <<"[", NL>> \o JsonItems(xs) \o <<"]">>

(***************************************************************************)
(* json.load, for the documents the model can hold: an array of strings,   *)
(* numbers and nulls, an object of such scalars, or a scalar; any other    *)
(* text is a JSONDecodeError.                                              *)
(***************************************************************************)
JsonWs == {" ", NL}

At(t, i) == IF i <= Len(t) THEN t[i] ELSE "EOF"

RECURSIVE SkipWs(_, _)
SkipWs(t, i) == IF At(t, i) \in JsonWs THEN SkipWs(t, i + 1) ELSE i

ParseFail == [ok |-> FALSE, v |-> JNull, next |-> 0]

\* the body of a string, after its opening quote
RECURSIVE ScanString(_, _, _)
ScanString(t, i, acc) ==
  LET c == At(t, i) IN
  IF c = "EOF" \/ c = NL THEN ParseFail
  ELSE IF c = QUOTE THEN [ok |-> TRUE, v |-> JStr(acc), next |-> i + 1]
  ELSE IF c = BSLASH THEN
    LET d == At(t, i + 1) IN
    IF d \in {QUOTE, BSLASH} THEN ScanString(t, i + 2, Append(acc, d))
    ELSE IF d = "n" THEN ScanString(t, i + 2, Append(acc, NL))
    ELSE ParseFail
  ELSE ScanString(t, i + 1, Append(acc, c))

\* the digits of a number, after its first digit
RECURSIVE ScanInt(_, _, _)
ScanInt(t, i, acc) ==
  IF IsDigit(At(t, i)) THEN ScanInt(t, i + 1, 10 * acc + DigitVal(t[i]))
  ELSE [ok |-> TRUE, v |-> JInt(acc), next |-> i]

ScanScalar(t, i) ==
  LET c == At(t, i) IN
  IF c = QUOTE THEN ScanString(t, i + 1, <<>>)
  ELSE IF c = "0" THEN
    IF IsDigit(At(t, i + 1)) THEN ParseFail
    ELSE [ok |-> TRUE, v |-> JInt(0), next |-> i + 1]
  ELSE IF IsDigit(c) THEN ScanInt(t, i + 1, DigitVal(c))
  ELSE IF <<c, At(t, i + 1), At(t, i + 2), At(t, i + 3)>> = <<"n", "u", "l", "l">>
    THEN [ok |-> TRUE, v |-> JNull, next |-> i + 4]
  ELSE ParseFail

\* the elements of an array, from the first character of an element
RECURSIVE ScanElems(_, _, _)
ScanElems(t, i, acc) ==
  LET \* after the element e, at the character j that follows it
      After(e, j) ==
        IF At(t, j) = "," THEN ScanElems(t, SkipWs(t, j + 1), Append(acc, e.v))
        ELSE IF At(t, j) = "]" THEN [ok |-> TRUE, items |-> Append(acc, e.v), next |-> j + 1]
        ELSE [ok |-> FALSE, items |-> <<>>, next |-> 0]
      Element(e) ==
        IF ~e.ok THEN [ok |-> FALSE, items |-> <<>>, next |-> 0]
        ELSE After(e, SkipWs(t, e.next))
  IN Element(ScanScalar(t, i))

\* the members of an object, from the first character of a key; items are
\* the keys
RECURSIVE ScanMembers(_, _, _)
ScanMembers(t, i, acc) ==
  LET \* after the member of key key, at the character j that follows it
      After(key, j) ==
        IF At(t, j) = "," THEN ScanMembers(t, SkipWs(t, j + 1), Append(acc, key.v))
        ELSE IF At(t, j) = "}" THEN [ok |-> TRUE, items |-> Append(acc, key.v), next |-> j + 1]
        ELSE [ok |-> FALSE, items |-> <<>>, next |-> 0]
      Member(key, val) ==
        IF ~val.ok THEN [ok |-> FALSE, items |-> <<>>, next |-> 0]
        ELSE After(key, SkipWs(t, val.next))
      \* c: the place of the colon
      Colon(key, c) ==
        Member(key, IF key.ok /\ At(t, c) = ":" THEN ScanScalar(t, SkipWs(t, c + 1))
                    ELSE ParseFail)
      Key(key) == Colon(key, IF key.ok THEN SkipWs(t, key.next) ELSE 0)
  IN Key(IF At(t, i) = QUOTE THEN ScanString(t, i + 1, <<>>) ELSE ParseFail)

JsonError == [ok |-> FALSE, kind |-> "error", items |-> <<>>]

JsonLoad(t) ==
  LET \* the value r must be followed by white space only
      Whole(r, kind, items) ==
        IF r.ok /\ SkipWs(t, r.next) = Len(t) + 1
        THEN [ok |-> TRUE, kind |-> kind, items |-> items]
        ELSE JsonError
      List(r) == Whole(r, "list", r.items)
      Object(r) == Whole(r, "object", r.items)
      \* closer: the bracket that ends the container opened before j
      Items(j, closer) ==
        IF At(t, j) = closer THEN [ok |-> TRUE, items |-> <<>>, next |-> j + 1]
        ELSE IF closer = "]" THEN ScanElems(t, j, <<>>)
        ELSE ScanMembers(t, j, <<>>)
      Value(i, c) ==
        IF c = "[" THEN List(Items(SkipWs(t, i + 1), "]"))
        ELSE IF c = "{" THEN Object(Items(SkipWs(t, i + 1), "}"))
        ELSE Whole(ScanScalar(t, i), "scalar", <<>>)
      Start(i) == Value(i, At(t, i))
  IN Start(SkipWs(t, 1))

(***************************************************************************)
(* The state file.  A locked entry is one on which open() raises           *)
(* PermissionError, for reading and for writing.                           *)
(***************************************************************************)
NoFile == [exists |-> FALSE, locked |-> FALSE, text |-> <<>>]
FileOf(t) == [exists |-> TRUE, locked |-> FALSE, text |-> t]
LockedFileOf(t) == [exists |-> TRUE, locked |-> TRUE, text |-> t]

RECURSIVE MapPyStr(_)
MapPyStr(items) ==
  IF items = <<>> THEN <<>> ELSE <<PyStr(Head(items))>> \o MapPyStr(Tail(items))

\* load_seen_posts without the isinstance test
LoadSeenPostsUnchecked(f) ==
  IF ~f.exists THEN [raised |-> FALSE, ids |-> <<>>]
  ELSE IF f.locked THEN [raised |-> FALSE, ids |-> <<>>]
  ELSE LET Ids(data) ==
             IF ~data.ok THEN [raised |-> FALSE, ids |-> <<>>]
             ELSE [raised |-> FALSE, ids |-> MapPyStr(data.items)]
       IN Ids(JsonLoad(f.text))

\* load_seen_posts(state_file): the list returned, or raised = TRUE when an
\* exception leaves the function
LoadSeenPosts(f) ==
  IF ~f.exists THEN [raised |-> FALSE, ids |-> <<>>]
  ELSE IF f.locked THEN [raised |-> FALSE, ids |-> <<>>]
  ELSE LET Ids(data) ==
             IF ~data.ok THEN [raised |-> FALSE, ids |-> <<>>]
             ELSE IF data.kind = "list" THEN [raised |-> FALSE, ids |-> MapPyStr(data.items)]
             ELSE [raised |-> FALSE, ids |-> <<>>]
       IN Ids(JsonLoad(f.text))

\* the text without sorted(set(...))
SeenPostsTextUnsorted(post_ids) == JsonDump(post_ids)

\* the text save_seen_posts(state_file, post_ids) hands to the file
SeenPostsText(post_ids) == JsonDump(Sorted(SetOf(post_ids)))

Prefix(t, n) == SubSeq(t, 1, n)

\* save_seen_posts(state_file, post_ids).  io = "ok": the write runs to
\* completion; io = "open": mkdir or open raises and the entry is left as
\* it was; io = "write": open has truncated the entry and the write stops
\* after cut characters.
SaveSeenPosts(f, post_ids, io, cut) ==
  LET text == SeenPostsText(post_ids) IN
  IF f.locked \/ io = "open" THEN [raised |-> TRUE, file |-> f]
  ELSE IF io = "write" /\ cut < Len(text)
    THEN [raised |-> TRUE, file |-> FileOf(Prefix(text, cut))]
  ELSE [raised |-> FALSE, file |-> FileOf(text)]

(***************************************************************************)
(* Posts and the Graph API response.                                       *)
(***************************************************************************)
\* a post: its "id" value, and whether its "attachments" value is a map or
\* a non-empty list
Post(id, att) == [id |-> id, attachments |-> att]

PostPool ==
  { Post(JStr(<<"2">>), "map"),
    Post(JStr(<<"1", "0">>), "map"),
    Post(JInt(7), "map"),
    Post(JStr(<<>>), "map"),
    Post(JMissing, "map"),
    Post(JStr(<<"3">>), "list") }

PollPool ==
  { Post(JStr(<<"2">>), "map"),
    Post(JStr(<<"1", "0">>), "map"),
    Post(JStr(<<"3">>), "list") }

RECURSIVE SeqsUpTo(_, _)
SeqsUpTo(S, n) ==
  IF n = 0 THEN {<<>>}
  ELSE LET shorter == SeqsUpTo(S, n - 1)
       IN shorter \cup {Append(q, x) : q \in {r \in shorter : Len(r) = n - 1}, x \in S}

\* the JSON body of a response: with or without a "data" key
NoData == [has_data |-> FALSE, data |-> <<>>]

Bodies(pool, n) == {NoData} \cup {[has_data |-> TRUE, data |-> b] : b \in SeqsUpTo(pool, n)}

\* status 0: requests.get raised, there is no response
Responses(pool, n) ==
  {[status |-> 0, body |-> NoData]}
    \cup {[status |-> 200, body |-> b] : b \in Bodies(pool, n)}
    \cup {[status |-> 500, body |-> b] : b \in Bodies(pool, 1)}

\* call_graph_api without the status test
CallGraphApiAnyStatus(resp) ==
  IF resp.status = 0 THEN [raised |-> TRUE, body |-> resp.body]
  ELSE [raised |-> FALSE, body |-> resp.body]

\* call_graph_api(endpoint, access_token, params)
CallGraphApi(resp) ==
  IF resp.status = 0 THEN [raised |-> TRUE, body |-> resp.body]
  ELSE IF resp.status # 200 THEN [raised |-> TRUE, body |-> resp.body]
  ELSE [raised |-> FALSE, body |-> resp.body]

\* get_group_feed(config)
GetGroupFeed(resp) ==
  LET data == CallGraphApi(resp) IN
  IF data.raised THEN [raised |-> TRUE, posts |-> <<>>]
  ELSE [raised |-> FALSE,
        posts |-> IF data.body.has_data THEN data.body.data ELSE <<>>]

\* str(post.get("id", ""))
PostId(post) == IF post.id.t = "missing" THEN <<>> ELSE PyStr(post.id)

\* process_post with its failures swallowed: it returns early instead of
\* raising
ProcessPostSwallowed(post, io_fail) ==
  IF PostId(post) = <<>> THEN "skipped"
  ELSE IF post.attachments = "list" \/ io_fail THEN "skipped"
  ELSE "done"

\* process_post(post, config): "skipped" for an empty id, "raised" when
\* the attachments value has no get() or a file operation fails (io_fail),
\* "done" otherwise
ProcessPost(post, io_fail) ==
  IF PostId(post) = <<>> THEN "skipped"
  ELSE IF post.attachments = "list" THEN "raised"
  ELSE IF io_fail THEN "raised"
  ELSE "done"

\* seen_set = set()
SeenSetEmpty(seen) == {}

\* seen_set = set(seen)
SeenSetOf(seen) == SetOf(seen)

\* the test without its first half, and without its second half
IsNewUnseen(post_id, seen_set) == ~(post_id \in seen_set)

IsNewNonEmpty(post_id, seen_set) == ~(post_id = <<>>)

\* the test of the loop of run_once that lets a post through
IsNew(post_id, seen_set) == ~(post_id = <<>> \/ post_id \in seen_set)

\* new_ids.insert(0, post_id)
AppendNewFront(new_ids, post_id) == <<post_id>> \o new_ids

\* new_ids.append(post_id)
AppendNew(new_ids, post_id) == Append(new_ids, post_id)

\* the seen-set left as it was after a post
SeenAddNone(seen_set, post_id) == seen_set

\* seen_set.add(post_id)
SeenAdd(seen_set, post_id) == seen_set \cup {post_id}

\* the for loop of run_once over posts[k..]; a file operation fails in the
\* fail_at-th call of process_post (0: in none).  invoked lists the ids of
\* the posts process_post has worked through.
RECURSIVE ScanPosts(_, _, _, _, _, _)
ScanPosts(batch, k, seen_set, new_ids, invoked, fail_at) ==
  IF k > Len(batch)
    THEN [raised |-> FALSE, seen_set |-> seen_set, new_ids |-> new_ids, invoked |-> invoked]
  ELSE LET post_id == PostId(batch[k]) IN
    IF ~IsNew(post_id, seen_set)
      THEN ScanPosts(batch, k + 1, seen_set, new_ids, invoked, fail_at)
    ELSE LET r == ProcessPost(batch[k], fail_at = Len(new_ids) + 1) IN
      IF r = "raised"
        THEN [raised |-> TRUE, seen_set |-> seen_set, new_ids |-> new_ids,
              invoked |-> invoked]
      ELSE ScanPosts(batch, k + 1, SeenAdd(seen_set, post_id), AppendNew(new_ids, post_id),
                     IF r = "done" THEN Append(invoked, post_id) ELSE invoked, fail_at)

\* the save made unconditional
ShouldSaveAlways(new_ids) == TRUE

\* if new_ids:
ShouldSave(new_ids) == new_ids # <<>>

\* list(S): the elements of a set in any order
RECURSIVE ListsOf(_)
ListsOf(S) ==
  IF S = {} THEN {<<>>}
  ELSE UNION {{<<x>> \o p : p \in ListsOf(S \ {x})} : x \in S}

\* how the file operations of save_seen_posts can go
SaveIo ==
  {[io |-> "ok", cut |-> 0], [io |-> "open", cut |-> 0]}
    \cup {[io |-> "write", cut |-> c] : c \in 0..MaxPartial}

(***************************************************************************)
(* State.                                                                  *)
(***************************************************************************)
VARIABLES
  file,      \* the entry at config.state_file
  pc,        \* run_polling_loop: "sleep" between two cycles, "stopped"
  cycle,     \* number of cycles started
  status,    \* HTTP status of the latest cycle's response (0: none)
  posts,     \* the batch get_group_feed returned in the latest cycle
  new_ids,   \* new_ids of the latest cycle
  outcome,   \* how the latest cycle ended
  wrote,     \* the latest cycle opened the state file for writing
  calls,     \* per id, how often process_post has worked through a post
  failed,    \* the [ERROR] lines run_polling_loop has printed
  env,       \* os.environ: the five settings, each a string or not set
  config,    \* the Config main has loaded
  post_ids,  \* store round trip: the argument of the latest save_seen_posts
  loaded,    \* store round trip: the result of the latest load_seen_posts
  store_pc,  \* store round trip: "start", "saved" or "failed", then "loaded"
             \* or "loaded_after_failure"
  inst,      \* two watchers on one state file: the locals of each run_once
  extract,   \* attachment extraction: the argument and the results
  download,  \* the download loop of process_post: urls, outcomes, files
  dom,       \* extract_single_post_from_dom: the page and the post returned
  app,       \* the Tk applications: the clicks, the worker threads, self.data
  scrape,    \* scrape_group_posts: the arguments, the source, the result
  browser,   \* selenium_collect_single_post: the driver and the result
  images     \* download_images_for_posts: the posts, the responses, the files

vars ==
  <<file, pc, cycle, status, posts, new_ids, outcome, wrote, calls, failed, env, config,
    post_ids, loaded, store_pc, inst, extract, download, dom, app, scrape, browser,
    images>>

guiVars == <<app, scrape, browser, images>>

sideVars == <<inst, extract, download, dom, guiVars>>

loopVars == <<pc, cycle, status, posts, new_ids, outcome, wrote, calls, failed, env, config>>

storeVars == <<post_ids, loaded, store_pc>>

(***************************************************************************)
(* load_config_from_env.                                                   *)
(***************************************************************************)

\* str.strip
RECURSIVE StripLeft(_)
StripLeft(s) == IF s # <<>> /\ IsSpace(Head(s)) THEN StripLeft(Tail(s)) ELSE s

RECURSIVE StripRight(_)
StripRight(s) ==
  IF s # <<>> /\ IsSpace(s[Len(s)]) THEN StripRight(SubSeq(s, 1, Len(s) - 1)) ELSE s

StripNone(s) == s

Strip(s) == StripRight(StripLeft(s))

\* os.environ.get(name, "").strip()
Getenv(e, name) == Strip(IF e[name].t = "missing" THEN <<>> ELSE e[name].s)

\* the digits of an int literal: digits, single underscores between them
RECURSIVE DigitsValue(_, _, _)
DigitsValue(s, k, acc) ==
  IF k > Len(s) THEN [ok |-> TRUE, n |-> acc]
  ELSE IF IsDigit(s[k]) THEN DigitsValue(s, k + 1, 10 * acc + DigitVal(s[k]))
  ELSE IF s[k] = "_" /\ k > 1 /\ k < Len(s) /\ IsDigit(s[k - 1]) /\ IsDigit(s[k + 1])
    THEN DigitsValue(s, k + 1, acc)
  ELSE [ok |-> FALSE, n |-> 0]

\* int(s) of a stripped string: ok is FALSE for ValueError
PyInt(s) ==
  LET signed == s # <<>> /\ s[1] \in {"+", "-"}
      body == IF signed THEN Tail(s) ELSE s
      v == DigitsValue(body, 1, 0)
  IN IF body = <<>> \/ ~IsDigit(body[1]) \/ ~v.ok THEN [ok |-> FALSE, n |-> 0]
     ELSE [ok |-> TRUE, n |-> IF signed /\ s[1] = "-" THEN 0 - v.n ELSE v.n]

\* the second argument, whatever the first
SecondOf(a, b) == b

Max(a, b) == IF a > b THEN a ELSE b

Min(a, b) == IF a < b THEN a ELSE b

\* Path(download_dir_str).resolve(): a relative path is taken from the
\* working directory
Cwd == <<"/", "w">>

Resolve(path) == IF Head(path) = "/" THEN path ELSE Cwd \o <<"/">> \o path

Config(group_id, access_token, download_dir, poll_interval_sec, page_size) ==
  [group_id |-> group_id, access_token |-> access_token, download_dir |-> download_dir,
   state_file |-> download_dir \o <<"/", "s", "e", "e", "n", "_", "p", "o", "s", "t", "s",
                                     ".", "j", "s", "o", "n">>,
   poll_interval_sec |-> poll_interval_sec, page_size |-> page_size]

\* no Config yet
NoConfig ==
  [group_id |-> <<>>, access_token |-> <<>>, download_dir |-> <<>>, state_file |-> <<>>,
   poll_interval_sec |-> 0, page_size |-> 0]

\* x or default, of strings
OrDefault(x, default) == IF x = <<>> THEN default ELSE x

\* load_config_from_env: raised stands for the RuntimeError
LoadConfigFromEnv(e) ==
  LET group_id == Getenv(e, "FB_GROUP_ID")
      access_token == Getenv(e, "FB_ACCESS_TOKEN")
      download_dir_str == OrDefault(Getenv(e, "FB_DOWNLOAD_DIR"),
                            <<"f", "b", "_", "g", "r", "o", "u", "p", "_", "d", "a", "t", "a">>)
      poll_interval_str == OrDefault(Getenv(e, "FB_POLL_INTERVAL_SEC"), <<"6", "0">>)
      page_size_str == OrDefault(Getenv(e, "FB_PAGE_SIZE"), <<"2", "5">>)
      poll_interval == IF PyInt(poll_interval_str).ok
                         THEN Max(10, PyInt(poll_interval_str).n) ELSE 60
      page_size == IF PyInt(page_size_str).ok
                     THEN Max(1, Min(100, PyInt(page_size_str).n)) ELSE 25
  IN IF group_id = <<>> \/ access_token = <<>> THEN [raised |-> TRUE, config |-> NoConfig]
     ELSE [raised |-> FALSE,
           config |-> Config(group_id, access_token, Resolve(download_dir_str),
                             poll_interval, page_size)]

\* an environment: the five settings
Env(group_id, access_token, download_dir, poll_interval_sec, page_size) ==
  [FB_GROUP_ID |-> group_id, FB_ACCESS_TOKEN |-> access_token,
   FB_DOWNLOAD_DIR |-> download_dir, FB_POLL_INTERVAL_SEC |-> poll_interval_sec,
   FB_PAGE_SIZE |-> page_size]

\* group id and token set, the rest left to the defaults
SoundEnv == Env(JStr(<<" ", "1", " ">>), JStr(<<"t">>), JMissing, JMissing, JMissing)

\* the environments main is started in: the group id and the token not
\* set, empty, blank or set
StartEnvs ==
  {Env(g, t, JMissing, JMissing, JMissing) :
     g \in {JMissing, JStr(<<>>), JStr(<<" ", NL>>), JStr(<<" ", "1", " ">>)},
     t \in {JMissing, JStr(<<" ">>), JStr(<<"t">>)}}
     \cup {Env(JStr(<<"1">>), JMissing, JStr(<<"d">>), JStr(<<"5">>), JStr(<<"x">>))}

\* texts a state file can hold when a cycle starts
TextNumbers == <<"[", "2", ",", " ", "1", "0", "]">>
TextObject == <<"{", QUOTE, "2", QUOTE, ":", " ", "1", "}">>
TextGarbage == <<"[", QUOTE, "2">>

SavedIds == {<<"2">>, <<"1", "0">>, <<"7">>}

InitFiles ==
  {NoFile, FileOf(TextNumbers), FileOf(TextObject), FileOf(TextGarbage),
   LockedFileOf(SeenPostsText(<<<<"2">>>>))}
    \cup {FileOf(SeenPostsText(Sorted(S))) : S \in SUBSET SavedIds}

PollInitFiles ==
  {NoFile, FileOf(TextObject), FileOf(SeenPostsText(<<<<"1", "0">>>>)),
   LockedFileOf(SeenPostsText(<<<<"2">>>>))}

RECURSIVE CountCalls(_, _)
CountCalls(c, ids) ==
  IF ids = <<>> THEN c
  ELSE LET id == Head(ids)
           d == IF id \in DOMAIN c THEN [c EXCEPT ![id] = @ + 1]
                ELSE [x \in DOMAIN c \cup {id} |-> IF x = id THEN 1 ELSE c[x]]
       IN CountCalls(d, Tail(ids))

NoCalls == [x \in {} |-> 0]

\* no cycle yet
InitCycles ==
  /\ cycle = 0
  /\ status = 0
  /\ posts = <<>>
  /\ new_ids = <<>>
  /\ outcome = "none"
  /\ wrote = FALSE
  /\ calls = NoCalls
  /\ failed = 0

\* run_polling_loop before its first cycle, main having loaded the config
InitLoop ==
  /\ pc = "sleep"
  /\ InitCycles
  /\ env = SoundEnv
  /\ config = LoadConfigFromEnv(SoundEnv).config

InitStore ==
  /\ post_ids = <<>>
  /\ loaded = <<>>
  /\ store_pc = "start"

\* nothing started yet in the parts a specification does not run
Idle == [pc |-> "idle"]

InitInst == inst = Idle

InitExtract == extract = Idle

InitDownload == download = Idle

InitDom == dom = Idle

InitApp == app = Idle

InitScrape == scrape = Idle

InitBrowser == browser = Idle

InitImages == images = Idle

InitGui == InitApp /\ InitScrape /\ InitBrowser /\ InitImages

InitSide == InitInst /\ InitExtract /\ InitDownload /\ InitDom /\ InitGui

\* the ways a run_once ends with an exception
Failures == {"fetch_error", "load_error", "process_error", "save_error"}

\* run_polling_loop without "except Exception": an exception of run_once
\* leaves the loop
AfterCycleUncaught(how) == IF how \in Failures THEN "crashed" ELSE "sleep"

\* where run_polling_loop is after run_once: every Exception is caught and
\* printed, then comes time.sleep
AfterCycle(how) == "sleep"

\* the end of a cycle of run_polling_loop
EndCycle(resp, batch, ids, how, f, w, invoked) ==
  /\ pc' = AfterCycle(how)
  /\ failed' = IF how \in Failures THEN failed + 1 ELSE failed
  /\ cycle' = cycle + 1
  /\ status' = resp.status
  /\ posts' = batch
  /\ new_ids' = ids
  /\ outcome' = how
  /\ file' = f
  /\ wrote' = w
  /\ calls' = CountCalls(calls, invoked)
  /\ UNCHANGED <<env, config, storeVars, sideVars>>

\* run_once(config), the response drawn from batches of at most n posts of
\* pool
RunOnce(pool, n) ==
  /\ pc = "sleep"
  /\ \E resp \in Responses(pool, n) :
       LET AfterSave(feed, scan, saved) ==
             EndCycle(resp, feed.posts, scan.new_ids,
                      IF saved.raised THEN "save_error" ELSE "saved",
                      saved.file, TRUE, scan.invoked)
           AfterScan(feed, scan) ==
             IF scan.raised
               THEN EndCycle(resp, feed.posts, scan.new_ids, "process_error", file, FALSE,
                             scan.invoked)
             ELSE IF ShouldSave(scan.new_ids) THEN
               \E arg \in ListsOf(scan.seen_set), sio \in SaveIo :
                 AfterSave(feed, scan, SaveSeenPosts(file, arg, sio.io, sio.cut))
             ELSE EndCycle(resp, feed.posts, scan.new_ids, "no_new", file, FALSE,
                           scan.invoked)
           Scan(feed, seen_set, sound) ==
             \E fail_at \in 0..Len(sound.new_ids) :
               AfterScan(feed, ScanPosts(feed.posts, 1, seen_set, <<>>, <<>>, fail_at))
           AfterLoad(feed, seen) ==
             IF seen.raised
               THEN EndCycle(resp, feed.posts, <<>>, "load_error", file, FALSE, <<>>)
             ELSE Scan(feed, SeenSetOf(seen.ids),
                       ScanPosts(feed.posts, 1, SeenSetOf(seen.ids), <<>>, <<>>, 0))
           AfterFetch(feed) ==
             IF feed.raised THEN EndCycle(resp, <<>>, <<>>, "fetch_error", file, FALSE, <<>>)
             ELSE IF feed.posts = <<>>
               THEN EndCycle(resp, <<>>, <<>>, "no_posts", file, FALSE, <<>>)
             ELSE AfterLoad(feed, LoadSeenPosts(file))
       IN AfterFetch(GetGroupFeed(resp))

\* one iteration of the while loop of run_polling_loop
PollCycle ==
  /\ cycle < MaxCycles
  /\ RunOnce(PollPool, MaxPollBatch)

\* KeyboardInterrupt during time.sleep: the loop ends
Interrupt ==
  /\ pc = "sleep"
  /\ pc' = "stopped"
  /\ UNCHANGED <<file, cycle, status, posts, new_ids, outcome, wrote, calls, failed, env,
                 config, storeVars, sideVars>>

\* main up to the while loop: load_config_from_env, then the banner and
\* config.download_dir.mkdir of run_polling_loop, which is outside any try
Main ==
  /\ pc = "start"
  /\ LET got == LoadConfigFromEnv(env) IN
       IF got.raised THEN pc' = "exited" /\ config' = config
       ELSE /\ config' = got.config
            /\ \E mkdir_raises \in BOOLEAN : pc' = IF mkdir_raises THEN "crashed" ELSE "sleep"
  /\ UNCHANGED <<file, cycle, status, posts, new_ids, outcome, wrote, calls, failed, env,
                 storeVars, sideVars>>

Init ==
  /\ file \in PollInitFiles
  /\ pc = "start"
  /\ InitCycles
  /\ env \in StartEnvs
  /\ config = NoConfig
  /\ InitStore /\ InitSide

Next == Main \/ PollCycle \/ Interrupt

Spec == Init /\ [][Next]_vars

(***************************************************************************)
(* main's load_config_from_env over the strings the two numeric settings   *)
(* can hold.                                                               *)
(***************************************************************************)
NumChars == {"0", "1", "9", "-", "+", " ", "_", "."}

\* a numeric setting: not set, or a string
NumSettings == {JMissing} \cup {JStr(s) : s \in SeqsUpTo(NumChars, MaxNumLen)}

\* the group id and the token set; one numeric setting drawn, or both the same
NumericEnvs ==
  {Env(JStr(<<"1">>), JStr(<<"t">>), JMissing, v, JMissing) : v \in NumSettings}
    \cup {Env(JStr(<<"1">>), JStr(<<"t">>), JMissing, JMissing, v) : v \in NumSettings}
    \cup {Env(JStr(<<"1">>), JStr(<<"t">>), JMissing, v, v) : v \in NumSettings}

InitConfigSpec ==
  /\ file = NoFile
  /\ pc = "start"
  /\ InitCycles
  /\ env \in NumericEnvs
  /\ config = NoConfig
  /\ InitStore /\ InitSide

NextConfig == Main

SpecConfig == InitConfigSpec /\ [][NextConfig]_vars

(***************************************************************************)
(* A single run_once from any content of the state file.                   *)
(***************************************************************************)
SingleRun ==
  /\ cycle = 0
  /\ RunOnce(PostPool, MaxBatch)

InitOnce == file \in InitFiles /\ InitLoop /\ InitStore /\ InitSide

NextOnce == SingleRun \/ Interrupt

SpecOnce == InitOnce /\ [][NextOnce]_vars

(***************************************************************************)
(* The store on its own: save_seen_posts and load_seen_posts applied to    *)
(* lists of id strings.                                                    *)
(***************************************************************************)
IdStrings ==
  {<<>>, <<"2">>, <<"1", "0">>, <<QUOTE>>, <<BSLASH, "n">>, <<NL>>}

StoreSave ==
  /\ store_pc = "start"
  /\ \E ids \in SeqsUpTo(IdStrings, MaxSaveLen), sio \in SaveIo :
       LET saved == SaveSeenPosts(file, ids, sio.io, sio.cut) IN
       /\ file' = saved.file
       /\ post_ids' = ids
       /\ store_pc' = IF saved.raised THEN "failed" ELSE "saved"
       /\ UNCHANGED <<loaded, loopVars, sideVars>>

StoreLoad ==
  /\ store_pc \in {"saved", "failed"}
  /\ loaded' = LoadSeenPosts(file).ids
  /\ store_pc' = IF store_pc = "saved" THEN "loaded" ELSE "loaded_after_failure"
  /\ UNCHANGED <<file, post_ids, loopVars, sideVars>>

InitStoreSpec == file \in InitFiles /\ InitLoop /\ InitStore /\ InitSide

NextStore == StoreSave \/ StoreLoad

SpecStore == InitStoreSpec /\ [][NextStore]_vars

(***************************************************************************)
(* Several watchers on one state file, each in its run_once.  The state    *)
(* file is read once, by load_seen_posts, and written once, by             *)
(* save_seen_posts; what lies between is local to the watcher.             *)
(***************************************************************************)
Instances == 1..NumInstances

\* the locals of a run_once: seen as loaded, seen_set, new_ids; order is
\* the rank of its save_seen_posts among all such calls (0: none), saved
\* whether that call returned
Locals(at, seen, seen_set, ids, order, saved) ==
  [pc |-> at, loaded |-> seen, seen_set |-> seen_set, new_ids |-> ids,
   order |-> order, saved |-> saved]

NoLocals == Locals("idle", <<>>, {}, <<>>, 0, FALSE)

\* run_once up to the end of its for loop
Begin(i) ==
  /\ inst.pc = "run"
  /\ inst.w[i].pc = "idle"
  /\ \E resp \in Responses(PollPool, MaxPollBatch) :
       LET feed == GetGroupFeed(resp) IN
       IF feed.raised \/ feed.posts = <<>>
         THEN inst' = [inst EXCEPT !.w[i] = Locals("done", <<>>, {}, <<>>, 0, FALSE)]
       ELSE LET seen == LoadSeenPosts(file)
                sound == ScanPosts(feed.posts, 1, SeenSetOf(seen.ids), <<>>, <<>>, 0)
            IN \E fail_at \in 0..Len(sound.new_ids) :
              LET scan == ScanPosts(feed.posts, 1, SeenSetOf(seen.ids), <<>>, <<>>, fail_at)
                  at == IF scan.raised THEN "done"
                        ELSE IF ShouldSave(scan.new_ids) THEN "commit"
                        ELSE "done"
              IN inst' = [inst EXCEPT
                            !.w[i] = Locals(at, seen.ids, scan.seen_set, scan.new_ids, 0, FALSE)]
  /\ UNCHANGED <<file, loopVars, storeVars, extract, download, dom, guiVars>>

\* run_once from "if new_ids:" on, entered with new ids
Commit(i) ==
  /\ inst.pc = "run"
  /\ inst.w[i].pc = "commit"
  /\ \E arg \in ListsOf(inst.w[i].seen_set), sio \in SaveIo :
       LET saved == SaveSeenPosts(file, arg, sio.io, sio.cut) IN
       /\ file' = saved.file
       /\ inst' = [inst EXCEPT !.commits = @ + 1,
                                !.w[i].pc = "done",
                                !.w[i].order = inst.commits + 1,
                                !.w[i].saved = ~saved.raised]
  /\ UNCHANGED <<loopVars, storeVars, extract, download, dom, guiVars>>

InitTwo ==
  /\ file \in PollInitFiles
  /\ inst = [pc |-> "run", commits |-> 0, w |-> [i \in Instances |-> NoLocals]]
  /\ InitLoop /\ InitStore /\ InitExtract /\ InitDownload /\ InitDom /\ InitGui

NextTwo == \E i \in Instances : Begin(i) \/ Commit(i)

SpecTwo == InitTwo /\ [][NextTwo]_vars

(***************************************************************************)
(* The attachments of a post: decoded JSON, so maps, lists, strings,       *)
(* numbers and null, in any nesting the server sends.                      *)
(***************************************************************************)
JMap(m) == [t |-> "map", s |-> <<>>, n |-> 0, m |-> m]
JList(l) == [t |-> "list", s |-> <<>>, n |-> 0, l |-> l]

\* {} and []
EmptyMap == JMap(<<>>)
EmptyList == JList(<<>>)

\* bool(x)
Truthy(x) ==
  CASE x.t = "str" -> x.s # <<>>
    [] x.t = "int" -> x.n # 0
    [] x.t = "map" -> DOMAIN x.m # {}
    [] x.t = "list" -> x.l # <<>>
    [] OTHER -> FALSE

\* x or d
PyOr(x, d) == IF Truthy(x) THEN x ELSE d

\* only a dict has get; get on anything else raises AttributeError
HasGet(x) == x.t = "map"

\* x.get(key) of a dict: None for a key it lacks
Get(x, key) == IF key \in DOMAIN x.m THEN x.m[key] ELSE JNull

\* the items a for loop over x visits: the elements of a list, the
\* characters of a string, the keys of a dict (strings, whatever their
\* text); any other value is not iterable and the loop raises TypeError
Iter(x) ==
  CASE x.t = "list" -> [raised |-> FALSE, items |-> x.l]
    [] x.t = "str" ->
         [raised |-> FALSE, items |-> [k \in 1..Len(x.s) |-> JStr(<<x.s[k]>>)]]
    [] x.t = "map" ->
         [raised |-> FALSE,
          items |-> [k \in 1..Cardinality(DOMAIN x.m) |-> JStr(<<"k">>)]]
    [] OTHER -> [raised |-> TRUE, items |-> <<>>]

UpperCase ==
  <<"A", "B", "C", "D", "E", "F", "G", "H", "I", "J", "K", "L", "M",
    "N", "O", "P", "Q", "R", "S", "T", "U", "V", "W", "X", "Y", "Z">>

LowerCase ==
  <<"a", "b", "c", "d", "e", "f", "g", "h", "i", "j", "k", "l", "m",
    "n", "o", "p", "q", "r", "s", "t", "u", "v", "w", "x", "y", "z">>

\* str.lower
LowerChar(c) ==
  IF \E k \in 1..26 : UpperCase[k] = c
    THEN LowerCase[CHOOSE k \in 1..26 : UpperCase[k] = c]
    ELSE c

Lower(s) == [k \in 1..Len(s) |-> LowerChar(s[k])]

\* "sub in s" of two strings
Occurs(sub, s) ==
  \E k \in 0..(Len(s) - Len(sub)) : SubSeq(s, k + 1, k + Len(sub)) = sub

\* what a step of the extraction yields: the urls appended, or an exception
Ok(urls) == [raised |-> FALSE, urls |-> urls]

Raised == [raised |-> TRUE, urls |-> <<>>]

\* media_type in {"photo", "share", "album"}
PhotoTypes ==
  { <<"p", "h", "o", "t", "o">>, <<"s", "h", "a", "r", "e">>,
    <<"a", "l", "b", "u", "m">> }

\* elif "source" in media: urls.append(str(media["source"]))
SourceUrl(media) ==
  IF "source" \in DOMAIN media.m THEN Ok(<<PyStr(media.m["source"])>>) ELSE Ok(<<>>)

\* img = media.get("image") or {}; if "src" in img: append str(img["src"]);
\* elif "source" in media: append str(media["source"]).  "src" in img is a
\* key test on a dict, a substring test on a string, a membership test on a
\* list and a TypeError on a number; img["src"] raises unless img is a dict.
PickUrlSourceFirst(media) ==
  IF "source" \in DOMAIN media.m THEN Ok(<<PyStr(media.m["source"])>>)
  ELSE LET img == PyOr(Get(media, "image"), EmptyMap) IN
       IF img.t = "map" /\ "src" \in DOMAIN img.m
         THEN Ok(<<PyStr(img.m["src"])>>) ELSE Ok(<<>>)

PickUrl(media) ==
  LET img == PyOr(Get(media, "image"), EmptyMap) IN
  CASE img.t = "map" ->
         IF "src" \in DOMAIN img.m THEN Ok(<<PyStr(img.m["src"])>>)
         ELSE SourceUrl(media)
    [] img.t = "str" ->
         IF Occurs(<<"s", "r", "c">>, img.s) THEN Raised ELSE SourceUrl(media)
    [] img.t = "list" ->
         IF \E k \in 1..Len(img.l) :
              img.l[k].t = "str" /\ img.l[k].s = <<"s", "r", "c">>
           THEN Raised ELSE SourceUrl(media)
    [] OTHER -> Raised

\* for sub_att in sub.get("data", []): from the kth item on
RECURSIVE SubUrls(_, _)
SubUrls(items, k) ==
  IF k > Len(items) THEN Ok(<<>>)
  ELSE IF ~HasGet(items[k]) THEN Raised
  ELSE LET sub_media == PyOr(Get(items[k], "media"), EmptyMap) IN
       IF ~HasGet(sub_media) THEN Raised
       ELSE LET one == PickUrl(sub_media)
                rest == SubUrls(items, k + 1)
            IN IF one.raised \/ rest.raised THEN Raised
               ELSE Ok(one.urls \o rest.urls)

\* the body of "for att in data:" for one attachment record
AttUrls(att) ==
  IF ~HasGet(att) THEN Raised
  ELSE LET mt == PyOr(Get(att, "media_type"), JStr(<<>>)) IN
  IF mt.t # "str" THEN Raised
  ELSE LET media_type == Lower(mt.s)
           media == PyOr(Get(att, "media"), EmptyMap)
           main == IF media_type \in PhotoTypes \/ Truthy(media)
                     THEN (IF HasGet(media) THEN PickUrl(media) ELSE Raised)
                     ELSE Ok(<<>>)
       IN
  IF main.raised THEN Raised
  ELSE LET sub == PyOr(Get(att, "subattachments"), EmptyMap) IN
  IF ~HasGet(sub) THEN Raised
  ELSE LET it == Iter(IF "data" \in DOMAIN sub.m THEN sub.m["data"] ELSE EmptyList) IN
  IF it.raised THEN Raised
  ELSE LET subs == SubUrls(it.items, 1) IN
  IF subs.raised THEN Raised ELSE Ok(main.urls \o subs.urls)

\* the records taken last to first
RECURSIVE AllUrlsReversed(_, _)
AllUrlsReversed(items, k) ==
  IF k > Len(items) THEN Ok(<<>>)
  ELSE LET one == AttUrls(items[k])
           rest == AllUrlsReversed(items, k + 1)
       IN IF one.raised \/ rest.raised THEN Raised
          ELSE Ok(rest.urls \o one.urls)

\* for att in data: from the kth record on
RECURSIVE AllUrls(_, _)
AllUrls(items, k) ==
  IF k > Len(items) THEN Ok(<<>>)
  ELSE LET one == AttUrls(items[k])
           rest == AllUrls(items, k + 1)
       IN IF one.raised \/ rest.raised THEN Raised
          ELSE Ok(one.urls \o rest.urls)

\* list(dict.fromkeys(urls)): keys holds the distinct urls met so far
RECURSIVE FromKeys(_, _)
FromKeys(urls, keys) ==
  IF urls = <<>> THEN keys
  ELSE FromKeys(Tail(urls),
                IF Head(urls) \in SetOf(keys) THEN keys ELSE Append(keys, Head(urls)))

DictFromKeysKept(urls) == urls

DictFromKeys(urls) == FromKeys(urls, <<>>)

\* what a call of one of the two functions has come to
Pending == [state |-> "pending", raw |-> <<>>, urls |-> <<>>, value |-> JNull]

Returned(raw, urls, value) ==
  [state |-> "returned", raw |-> raw, urls |-> urls, value |-> value]

Threw == [state |-> "raised", raw |-> <<>>, urls |-> <<>>, value |-> JNull]

\* extract_images_from_attachments; raw is urls before its last line
ExtractImagesFromAttachments(attachments) ==
  IF ~Truthy(attachments) THEN Returned(<<>>, <<>>, JNull)
  ELSE IF ~HasGet(attachments) THEN Threw
  ELSE LET it == Iter(PyOr(Get(attachments, "data"), EmptyList)) IN
  IF it.raised THEN Threw
  ELSE LET all == AllUrls(it.items, 1) IN
  IF all.raised THEN Threw
  ELSE Returned(all.urls, DictFromKeys(all.urls), JNull)

\* for att in data: url = att.get("url"); if url: return str(url)
RECURSIVE LastUrl(_, _)
LastUrl(items, k) ==
  IF k > Len(items) THEN Returned(<<>>, <<>>, JNull)
  ELSE LET rest == LastUrl(items, k + 1) IN
       IF rest.state = "raised" \/ rest.value.t # "null" THEN rest
       ELSE IF ~HasGet(items[k]) THEN Threw
       ELSE IF Truthy(Get(items[k], "url"))
         THEN Returned(<<>>, <<>>, JStr(PyStr(Get(items[k], "url"))))
       ELSE rest

RECURSIVE FirstUrl(_, _)
FirstUrl(items, k) ==
  IF k > Len(items) THEN Returned(<<>>, <<>>, JNull)
  ELSE IF ~HasGet(items[k]) THEN Threw
  ELSE IF Truthy(Get(items[k], "url"))
    THEN Returned(<<>>, <<>>, JStr(PyStr(Get(items[k], "url"))))
  ELSE FirstUrl(items, k + 1)

\* extract_original_link
ExtractOriginalLink(attachments) ==
  IF ~Truthy(attachments) THEN Returned(<<>>, <<>>, JNull)
  ELSE IF ~HasGet(attachments) THEN Threw
  ELSE LET it == Iter(PyOr(Get(attachments, "data"), EmptyList)) IN
  IF it.raised THEN Threw ELSE FirstUrl(it.items, 1)

\* image and link urls
UrlA == <<"a">>
UrlB == <<"b">>
UrlC == <<"c">>
LinkX == <<"x">>
LinkY == <<"y">>

\* {"image": {"src": src}}
ImageOf(src) == JMap([image |-> JMap([src |-> JStr(src)])])

\* attachment records as the Graph API sends them, and malformed ones
AttPool ==
  << \* 1: a photo
     JMap([media_type |-> JStr(<<"p", "h", "o", "t", "o">>), media |-> ImageOf(UrlA)]),
     \* 2: media with image.src and source
     JMap([media |-> JMap([image |-> JMap([src |-> JStr(UrlA)]), source |-> JStr(UrlB)])]),
     \* 3: media whose image has no src, with source
     JMap([media |-> JMap([image |-> JMap([height |-> JInt(1)]), source |-> JStr(UrlB)])]),
     \* 4: a video with a link: source and no image
     JMap([url |-> JStr(LinkX), media |-> JMap([source |-> JStr(UrlC)])]),
     \* 5: an album with three sub-attachments
     JMap([media_type |-> JStr(<<"a", "l", "b", "u", "m">>), url |-> JStr(LinkY),
           media |-> ImageOf(UrlB),
           subattachments |->
             JMap([data |-> JList(<<
               JMap([media |-> ImageOf(UrlB)]),
               JMap([media |-> JMap([image |-> JMap([src |-> JStr(UrlC)]),
                                     source |-> JStr(UrlA)])]),
               JMap([media |-> JMap([source |-> JStr(UrlA)])]) >>)])]),
     \* 6: a photo without media, its url empty
     JMap([url |-> JStr(<<>>), media_type |-> JStr(<<"P", "H", "O", "T", "O">>)]),
     \* 7: a numeric url, an image whose src is null
     JMap([url |-> JInt(7), media |-> JMap([image |-> JMap([src |-> JNull])])]),
     \* 8: a shared link with a preview image
     JMap([url |-> JStr(LinkY), media |-> ImageOf(UrlC)]),
     \* 9: media is a string
     JMap([url |-> JStr(LinkX), media |-> JStr(UrlB)]),
     \* 10: the record is a string
     JStr(UrlA),
     \* 11: subattachments is a list
     JMap([url |-> JStr(LinkY), media |-> ImageOf(UrlA),
           subattachments |-> JList(<<JMap([media |-> ImageOf(UrlB)])>>)]),
     \* 12: media.image is a number
     JMap([media |-> JMap([image |-> JInt(5)])]),
     \* 13: media_type is a number
     JMap([media_type |-> JInt(3), url |-> JStr(LinkX)]),
     \* 14: subattachments.data is null
     JMap([subattachments |-> JMap([data |-> JNull])]) >>

Records(picks) == [k \in 1..Len(picks) |-> AttPool[picks[k]]]

\* the attachments value handed to the two functions: a map with a "data"
\* list of the picked records, None, {}, a map without "data", a map whose
\* "data" is null, or a list
AttachmentsOf(shape, picks) ==
  CASE shape = "data" -> JMap([data |-> JList(Records(picks))])
    [] shape = "none" -> JNull
    [] shape = "empty" -> EmptyMap
    [] shape = "nodata" -> JMap([paging |-> EmptyMap])
    [] shape = "datanull" -> JMap([data |-> JNull])
    [] shape = "list" -> JList(<<AttPool[1]>>)

Shapes == {"none", "empty", "nodata", "datanull", "list"}

\* process_post, "image_urls = extract_images_from_attachments(attachments)"
ExtractImages ==
  /\ extract.pc = "call"
  /\ extract.images.state = "pending"
  /\ extract' = [extract EXCEPT
       !.images = ExtractImagesFromAttachments(AttachmentsOf(extract.shape, extract.picks))]
  /\ UNCHANGED <<file, loopVars, storeVars, inst, download, dom, guiVars>>

\* process_post, "original_link = extract_original_link(attachments)"
ExtractLink ==
  /\ extract.pc = "call"
  /\ extract.link.state = "pending"
  /\ extract' = [extract EXCEPT
       !.link = ExtractOriginalLink(AttachmentsOf(extract.shape, extract.picks))]
  /\ UNCHANGED <<file, loopVars, storeVars, inst, download, dom, guiVars>>

Call(shape, picks) ==
  [pc |-> "call", shape |-> shape, picks |-> picks, images |-> Pending, link |-> Pending]

InitExtractSpec ==
  /\ extract \in {Call("data", picks) : picks \in SeqsUpTo(1..Len(AttPool), MaxAtts)}
                   \cup {Call(shape, <<>>) : shape \in Shapes}
  /\ file = NoFile
  /\ InitLoop /\ InitStore /\ InitInst /\ InitDownload /\ InitDom /\ InitGui

NextExtract == ExtractImages \/ ExtractLink

SpecExtract == InitExtractSpec /\ [][NextExtract]_vars

(***************************************************************************)
(* The single-post extractor of the browser scraper: the page the driver   *)
(* shows, FB_IMAGE_URL_REGEX, html.unescape and                            *)
(* extract_single_post_from_dom.                                           *)
(***************************************************************************)

\* the class [^\"'\\s] of FB_IMAGE_URL_REGEX, compiled with re.IGNORECASE:
\* any character but a double quote, a single quote, a backslash and the
\* letter s
InClass(c) == c \notin {QUOTE, "'", BSLASH, "s", "S"}

\* the text at p reads lit, letters compared without case
LooksAt(html, p, lit) ==
  /\ p + Len(lit) - 1 <= Len(html)
  /\ \A k \in 1..Len(lit) : LowerChar(html[p + k - 1]) = lit[k]

\* the first position from p on that holds no character of the class
RECURSIVE RunEnd(_, _)
RunEnd(html, p) ==
  IF p > Len(html) \/ ~InClass(html[p]) THEN p ELSE RunEnd(html, p + 1)

\* (?:jpg|jpeg|png|webp)
Extensions ==
  << <<"j", "p", "g">>, <<"j", "p", "e", "g">>, <<"p", "n", "g">>, <<"w", "e", "b", "p">> >>

\* the length of the first alternative that matches at p, 0 when none does
ExtLen(html, p) ==
  IF \E k \in 1..4 : LooksAt(html, p, Extensions[k])
    THEN Len(Extensions[CHOOSE k \in 1..4 :
                          /\ LooksAt(html, p, Extensions[k])
                          /\ \A h \in 1..(k - 1) : ~LooksAt(html, p, Extensions[h])])
    ELSE 0

\* https?:// at p: the position after it, 0 when it is not there
AfterScheme(html, p) ==
  IF ~LooksAt(html, p, <<"h", "t", "t", "p">>) THEN 0
  ELSE IF LooksAt(html, p + 4, <<"s", ":", "/", "/">>) THEN p + 8
  ELSE IF LooksAt(html, p + 4, <<":", "/", "/">>) THEN p + 7
  ELSE 0

\* a match of FB_IMAGE_URL_REGEX at p: the position after it, 0 when there
\* is none.  The pattern is the raw string
\*   https?://[^\"'\\s]+?\\.(?:jpg|jpeg|png|webp)(?:\\?[^\"'\\s]*)?
\* in which \\ is a literal backslash: one or more class characters, a
\* backslash, any character but a newline, an extension, then an optional
\* backslash and class characters as far as they go.
MatchEnd(html, p) ==
  LET q == AfterScheme(html, p) IN
  IF q = 0 THEN 0
  ELSE LET b == RunEnd(html, q) IN
       IF b = q \/ b + 1 > Len(html) THEN 0
       ELSE IF html[b] # BSLASH \/ html[b + 1] = NL THEN 0
       ELSE LET e == ExtLen(html, b + 2) IN
            IF e = 0 THEN 0
            ELSE LET t == b + 2 + e
                     u == IF t <= Len(html) /\ html[t] = BSLASH THEN t + 1 ELSE t
                 IN RunEnd(html, u)

\* FB_IMAGE_URL_REGEX.findall(html), from position p on
RECURSIVE FindAll(_, _)
FindAll(html, p) ==
  IF p > Len(html) THEN <<>>
  ELSE LET e == MatchEnd(html, p) IN
       IF e = 0 THEN FindAll(html, p + 1)
       ELSE <<SubSeq(html, p, e - 1)>> \o FindAll(html, e)

\* html.unescape for the named references of the pages below: the name
\* runs over up to 32 characters other than white space, <, &, # and ;,
\* with an optional ; after it; a known name is replaced, and so is the
\* longest known proper prefix (of two characters or more) of an unknown one
EntityNames == << <<"a", "m", "p">>, <<"l", "t">>, <<"g", "t">>, <<"q", "u", "o", "t">> >>

EntityChars == <<"&", "<", ">", QUOTE>>

NameStop == {" ", NL, "<", "&", "#", ";"}

RECURSIVE NameEnd(_, _, _)
NameEnd(s, p, n) ==
  IF p > Len(s) \/ s[p] \in NameStop \/ n = 32 THEN p ELSE NameEnd(s, p + 1, n + 1)

EntityOf(name) ==
  IF \E k \in 1..4 : EntityNames[k] = name
    THEN <<EntityChars[CHOOSE k \in 1..4 : EntityNames[k] = name]>> ELSE <<>>

\* the replacement of the reference whose name is s[p..e-1], followed by
\* semi (";" or nothing)
CharRef(name, semi) ==
  IF EntityOf(name) # <<>> THEN EntityOf(name)
  ELSE LET whole == name \o semi
           X == {x \in 2..(Len(whole) - 1) : x <= Len(name) /\ EntityOf(SubSeq(name, 1, x)) # <<>>}
       IN IF X = {} THEN <<"&">> \o whole
          ELSE LET x == CHOOSE x \in X : \A y \in X : y <= x
               IN EntityOf(SubSeq(name, 1, x)) \o SubSeq(whole, x + 1, Len(whole))

RECURSIVE Unescape(_, _)
Unescape(s, p) ==
  IF p > Len(s) THEN <<>>
  ELSE IF s[p] # "&" THEN <<s[p]>> \o Unescape(s, p + 1)
  ELSE LET e == NameEnd(s, p + 1, 0) IN
       IF e = p + 1 THEN <<"&">> \o Unescape(s, p + 1)
       ELSE LET semi == IF e <= Len(s) /\ s[e] = ";" THEN <<";">> ELSE <<>>
            IN CharRef(SubSeq(s, p + 1, e - 1), semi) \o Unescape(s, e + Len(semi))

\* re.sub(r"<[^>]+>", " ", html), from position p on
RECURSIVE StripTags(_, _)
StripTags(html, p) ==
  IF p > Len(html) THEN <<>>
  ELSE IF html[p] = "<" /\ \E j \in (p + 2)..Len(html) : html[j] = ">"
         /\ html[p + 1] # ">"
    THEN LET j == CHOOSE j \in (p + 2)..Len(html) :
                    html[j] = ">" /\ \A h \in (p + 1)..(j - 1) : html[h] # ">"
         IN <<" ">> \o StripTags(html, j + 1)
  ELSE <<html[p]>> \o StripTags(html, p + 1)

\* " ".join(rough.split()): word is the word being read, any says whether a
\* word has been put out already
RECURSIVE JoinSplit(_, _, _, _)
JoinSplit(rough, p, word, any) ==
  LET sep == IF any THEN <<" ">> ELSE <<>> IN
  IF p > Len(rough) THEN (IF word = <<>> THEN <<>> ELSE sep \o word)
  ELSE IF IsSpace(rough[p])
    THEN (IF word = <<>> THEN JoinSplit(rough, p + 1, <<>>, any)
          ELSE sep \o word \o JoinSplit(rough, p + 1, <<>>, TRUE))
  ELSE JoinSplit(rough, p + 1, Append(word, rough[p]), any)

\* str.strip() is not empty
HasVisibleText(text) == \E k \in 1..Len(text) : ~IsSpace(text[k])

\* the data: test left out
IsDataUriNever(src) == FALSE

\* src.startswith("data:")
IsDataUri(src) == IsPrefix(<<"d", "a", "t", "a", ":">>, src)

ImgX ==
  <<"h", "t", "t", "p", ":", "/", "/", "c", "/", "x", ".", "j", "p", "g">>

BareY ==
  <<"h", "t", "t", "p", "s", ":", "/", "/", "c", "d", "n", "/", "y", ".",
    "j", "p", "g">>

SlashedZ ==
  <<"h", "t", "t", "p", ":", "/", "/", "c", "/", "z", BSLASH, ".", "p",
    "n", "g">>

DataUri ==
  <<"d", "a", "t", "a", ":", "i", "m", "a", "g", "e", "/", "g", "i", "f",
    ";", "b", "a", "s", "e", "6", "4", ",", "R", "0">>

PageUrl ==
  <<"h", "t", "t", "p", "s", ":", "/", "/", "f", "b", "/", "p", "/", "1">>

HtmlImgAndBare ==
  <<"<", "i", "m", "g", " ", "s", "r", "c", "=", QUOTE, "h", "t", "t",
    "p", ":", "/", "/", "c", "/", "x", ".", "j", "p", "g", QUOTE, ">",
    " ", "h", "t", "t", "p", "s", ":", "/", "/", "c", "d", "n", "/", "y",
    ".", "j", "p", "g">>

HtmlSlashed ==
  <<"<", "p", ">", "h", "i", "<", "/", "p", ">", "{", QUOTE, "u", "r",
    "i", QUOTE, ":", QUOTE, "h", "t", "t", "p", ":", "/", "/", "c", "/",
    "z", BSLASH, ".", "p", "n", "g", QUOTE, "}", "<", "i", "m", "g", " ",
    "s", "r", "c", "=", QUOTE, "h", "t", "t", "p", ":", "/", "/", "c",
    "/", "x", ".", "j", "p", "g", QUOTE, ">">>

HtmlIcons ==
  <<"<", "i", "m", "g", " ", "s", "r", "c", "=", QUOTE, "d", "a", "t",
    "a", ":", "i", "m", "a", "g", "e", "/", "g", "i", "f", ";", "b", "a",
    "s", "e", "6", "4", ",", "R", "0", QUOTE, ">", "<", "i", "m", "g",
    ">", "<", "i", "m", "g", " ", "s", "r", "c", "=", QUOTE, "h", "t",
    "t", "p", ":", "/", "/", "c", "/", "x", ".", "j", "p", "g", QUOTE,
    ">", "<", "i", "m", "g", " ", "s", "r", "c", "=", QUOTE, "h", "t",
    "t", "p", ":", "/", "/", "c", "/", "x", ".", "j", "p", "g", QUOTE,
    ">">>

HtmlAmp ==
  <<"<", "b", ">", "a", NL, "b", "<", "/", "b", ">", " ", "h", "t", "t",
    "p", ":", "/", "/", "c", "/", "w", BSLASH, ".", "j", "p", "g", "?",
    "a", "=", "1", "&", "a", "m", "p", ";", "b", "=", "2", QUOTE>>

HtmlText ==
  <<"<", "p", ">", "o", "n", "l", "y", " ", "t", "e", "x", "t", "<", "/",
    "p", ">">>

\* a web element: its text, the src attributes of the <img> elements below
\* it, its innerHTML (null for None), and which of the driver calls on it
\* raise
Elem(text, srcs, html) ==
  [text |-> text, srcs |-> srcs, html |-> html,
   text_raises |-> FALSE, find_raises |-> FALSE, html_raises |-> FALSE]

ElemPool ==
  << \* 1: one image and a bare image url in running text
     Elem(<<"t">>, <<JStr(ImgX)>>, JStr(HtmlImgAndBare)),
     \* 2: one image and an url with an escaped dot in embedded JSON
     Elem(<<"h", "i">>, <<JStr(ImgX)>>, JStr(HtmlSlashed)),
     \* 3: nothing to see
     Elem(<<>>, <<>>, JNull),
     \* 4: white space only
     Elem(<<" ", NL>>, <<>>, JStr(<<" ", NL>>)),
     \* 5: no text; an inline icon, an <img> without src, one image twice
     Elem(<<>>, <<JStr(DataUri), JNull, JStr(ImgX), JStr(ImgX)>>, JStr(HtmlIcons)),
     \* 6: innerHTML cannot be read
     [Elem(<<"t">>, <<JStr(ImgX)>>, JNull) EXCEPT !.html_raises = TRUE],
     \* 7: the <img> elements cannot be listed
     [Elem(<<"o", "n", "l", "y", " ", "t", "e", "x", "t">>, <<JStr(ImgX)>>, JStr(HtmlText))
        EXCEPT !.find_raises = TRUE],
     \* 8: no text; an image, and an url with an escaped dot and a query
     Elem(<<>>, <<JStr(BareY)>>, JStr(HtmlAmp)),
     \* 9: a stale element
     [Elem(<<>>, <<>>, JNull) EXCEPT !.text_raises = TRUE] >>

\* art.find_elements(By.XPATH, ".//img") under "except Exception: []"
ImgElements(art) == IF art.find_raises THEN <<>> ELSE art.srcs

\* "for art in articles:" from the kth on: the first with visible text or
\* images; art.text is read outside any try
RECURSIVE Choose(_, _)
Choose(articles, k) ==
  IF k > Len(articles) THEN [state |-> "none", k |-> 0]
  ELSE IF articles[k].text_raises THEN [state |-> "raised", k |-> 0]
  ELSE IF HasVisibleText(articles[k].text) \/ ImgElements(articles[k]) # <<>>
    THEN [state |-> "chosen", k |-> k]
  ELSE Choose(articles, k + 1)

\* the loop over img_elements, from the kth on
RECURSIVE DomPass(_, _, _)
DomPass(srcs, k, image_urls) ==
  IF k > Len(srcs) THEN image_urls
  ELSE LET src == PyOr(srcs[k], JStr(<<>>)).s IN
       IF src = <<>> \/ IsDataUri(src) \/ src \in SetOf(image_urls)
         THEN DomPass(srcs, k + 1, image_urls)
         ELSE DomPass(srcs, k + 1, Append(image_urls, src))

\* the loop over FB_IMAGE_URL_REGEX.findall(html), from the kth match on
RECURSIVE RegexPass(_, _, _)
RegexPass(matches, k, image_urls) ==
  IF k > Len(matches) THEN image_urls
  ELSE LET clean_url == Unescape(matches[k], 1) IN
       RegexPass(matches, k + 1,
                 IF clean_url \in SetOf(image_urls) THEN image_urls
                 ELSE Append(image_urls, clean_url))

\* text[:n]
Take(text, n) == SubSeq(text, 1, IF Len(text) < n THEN Len(text) ELSE n)

NoPost(state) ==
  [state |-> state, post_url |-> <<>>, post_text |-> <<>>, html |-> <<>>,
   image_urls |-> <<>>, chosen |-> 0]

\* extract_single_post_from_dom on a page whose article containers are
\* articles (found raises: the lookup fails), whose <body> is body (0: the
\* lookup fails), and whose address is url (null: reading it fails)
ExtractSinglePostFromDom(find_raises, found, body, url) ==
  LET articles == IF find_raises \/ found = <<>>
                    THEN (IF body = 0 THEN <<>> ELSE <<ElemPool[body]>>)
                    ELSE [k \in 1..Len(found) |-> ElemPool[found[k]]]
      pick == Choose(articles, 1)
  IN IF articles = <<>> THEN NoPost("none")
     ELSE IF pick.state # "chosen" THEN NoPost(pick.state)
     ELSE LET chosen == articles[pick.k]
              html == IF chosen.html_raises THEN <<>> ELSE PyOr(chosen.html, JStr(<<>>)).s
              text == IF chosen.text = <<>> /\ html # <<>>
                        THEN JoinSplit(StripTags(html, 1), 1, <<>>, FALSE)
                        ELSE chosen.text
              from_dom == IF chosen.find_raises THEN <<>> ELSE DomPass(chosen.srcs, 1, <<>>)
              image_urls == IF html # <<>> THEN RegexPass(FindAll(html, 1), 1, from_dom)
                            ELSE from_dom
          IN [state |-> "returned", post_url |-> PyOr(url, JStr(<<>>)).s,
              post_text |-> Take(text, 4000), html |-> html,
              image_urls |-> image_urls, chosen |-> pick.k]

\* a call of extract_single_post_from_dom
ExtractPost ==
  /\ dom.pc = "call"
  /\ dom' = [dom EXCEPT !.pc = "done",
               !.result = ExtractSinglePostFromDom(dom.find_raises, dom.found, dom.body, dom.url)]
  /\ UNCHANGED <<file, loopVars, storeVars, inst, extract, download, guiVars>>

Page(find_raises, found, body, url) ==
  [pc |-> "call", find_raises |-> find_raises, found |-> found, body |-> body,
   url |-> url, result |-> NoPost("pending")]

PageUrls == {JStr(PageUrl), JNull}

InitDomSpec ==
  /\ dom \in {Page(FALSE, found, 1, url) :
                found \in SeqsUpTo(1..Len(ElemPool), MaxArticles) \ {<<>>}, url \in PageUrls}
             \cup {Page(FALSE, <<>>, body, url) :
                     body \in 0..Len(ElemPool), url \in PageUrls}
             \cup {Page(TRUE, <<1>>, body, url) :
                     body \in 0..Len(ElemPool), url \in PageUrls}
  /\ file = NoFile
  /\ InitLoop /\ InitStore /\ InitInst /\ InitExtract /\ InitDownload /\ InitGui

NextDom == ExtractPost

SpecDom == InitDomSpec /\ [][NextDom]_vars

(***************************************************************************)
(* download_image and the image loop of process_post.                      *)
(***************************************************************************)
UrlPng == <<"h", "t", "t", "p", ":", "/", "/", "c", "/", "b", ".", "P", "N", "G">>

UrlBare == <<"h", "t", "t", "p", ":", "/", "/", "c", "/", "c">>

UrlTwoExt == <<"h", "t", "t", "p", ":", "/", "/", "c", "/", "d", ".", "w", "e", "b", "p", "?", "f", "=", ".", "j", "p", "e", "g">>

\* urls of the images of a post
ImageUrls == <<ImgX, UrlPng, UrlBare, UrlTwoExt>>

\* (".jpg", ".jpeg", ".png", ".webp")
Candidates ==
  << <<".", "j", "p", "g">>, <<".", "j", "p", "e", "g">>, <<".", "p", "n", "g">>,
     <<".", "w", "e", "b", "p">> >>

\* ext = ".jpg"; for candidate in ...: if candidate in url.lower(): ext = candidate; break
GuessExt(url) ==
  IF \E k \in 1..4 : Occurs(Candidates[k], Lower(url))
    THEN Candidates[CHOOSE k \in 1..4 :
                      /\ Occurs(Candidates[k], Lower(url))
                      /\ \A h \in 1..(k - 1) : ~Occurs(Candidates[h], Lower(url))]
    ELSE Candidates[1]

\* f"img_{idx}"
ImgPrefix(idx) == <<"i", "m", "g", "_">> \o IntToStr(idx)

\* what can happen to one download: mkdir raises, requests.get raises, the
\* server answers 404, open("wb") raises, write raises, or all goes well
Fates == {"mkdir_raises", "get_raises", "http_404", "open_raises", "write_raises", "ok"}

\* a file of the post directory; whole: the response body is in it
ImageFile(name, whole) == [name |-> name, whole |-> whole]

\* the files after filename.open("wb") and f.write(resp.content)
DiskAfter(disk, filename, fate) ==
  CASE fate = "ok" -> {f \in disk : f.name # filename} \cup {ImageFile(filename, TRUE)}
    [] fate = "write_raises" -> {f \in disk : f.name # filename} \cup {ImageFile(filename, FALSE)}
    [] OTHER -> disk

\* download_image without its try/except
DownloadImageUncaught(url, prefix, disk, fate) ==
  LET filename == prefix \o GuessExt(url) IN
  [raised |-> fate \notin {"ok", "http_404"},
   local |-> IF fate = "ok" THEN JStr(filename) ELSE JNull,
   disk |-> DiskAfter(disk, filename, fate)]

\* download_image(url, post_dir, prefix): every Exception ends in "return None"
DownloadImage(url, prefix, disk, fate) ==
  LET filename == prefix \o GuessExt(url) IN
  [raised |-> FALSE,
   local |-> IF fate = "ok" THEN JStr(filename) ELSE JNull,
   disk |-> DiskAfter(disk, filename, fate)]

\* one turn of "for idx, url in enumerate(image_urls, start=1):"
DownloadNext ==
  /\ download.pc = "loop"
  /\ download.idx < Len(download.image_urls)
  /\ \E fate \in Fates :
       LET idx == download.idx + 1
           got == DownloadImage(ImageUrls[download.image_urls[idx]], ImgPrefix(idx),
                                download.disk, fate)
       IN download' = [download EXCEPT
            !.pc = IF got.raised THEN "raised" ELSE "loop",
            !.idx = idx,
            !.fates = Append(@, fate),
            !.locals = IF got.raised THEN @ ELSE Append(@, got.local),
            !.disk = got.disk]
  /\ UNCHANGED <<file, loopVars, storeVars, inst, extract, dom, guiVars>>

\* the loop is over: process_post returns
DownloadsDone ==
  /\ download.pc = "loop"
  /\ download.idx = Len(download.image_urls)
  /\ download' = [download EXCEPT !.pc = "done"]
  /\ UNCHANGED <<file, loopVars, storeVars, inst, extract, dom, guiVars>>

InitDownloadSpec ==
  /\ download \in {[pc |-> "loop", image_urls |-> urls, idx |-> 0, fates |-> <<>>,
                      locals |-> <<>>, disk |-> {}] :
                       urls \in SeqsUpTo(1..Len(ImageUrls), MaxImages)}
  /\ file = NoFile
  /\ InitLoop /\ InitStore /\ InitInst /\ InitExtract /\ InitDom /\ InitGui

NextDownload == DownloadNext \/ DownloadsDone

SpecDownload == InitDownloadSpec /\ [][NextDownload]_vars

(***************************************************************************)
(* The Tk applications: FacebookScraperApp ("keyword"), and the            *)
(* SinglePostScraperApp ("single") and AdvancedSeleniumScraperApp          *)
(* ("advanced") of the Selenium scraper.  A click on Start Scrape runs the *)
(* handler in the main loop; a worker is a daemon thread.                  *)
(***************************************************************************)
Apps == {"keyword", "single", "advanced"}

\* what the entries hold at a click; cookies: the entry is empty, names no
\* file, names a file load_netscape_cookies cannot read, or names a file
Forms ==
  {[target |-> g, limit |-> l, cookies |-> c] :
     g \in {<<>>, <<" ">>, <<"g">>},
     l \in {<<>>, <<"0">>, <<"2">>, <<"x">>},
     c \in {"none", "missing", "unreadable", "file"}}

\* int(limit_str) with "if max_posts <= 0: raise ValueError"
PositiveInt(limit_str) == PyInt(limit_str).ok /\ PyInt(limit_str).n > 0

\* the handler gets past its checks and reaches thread.start()
Accepts(kind, form) ==
  /\ Strip(form.target) # <<>>
  /\ CASE kind = "keyword" -> PositiveInt(OrDefault(Strip(form.limit), <<"1", "0", "0">>))
        [] kind = "advanced" -> PositiveInt(OrDefault(Strip(form.limit), <<"5", "0">>))
        [] kind = "single" -> TRUE
  /\ form.cookies # "missing"
  /\ kind = "keyword" \/ form.cookies # "unreadable"

\* the max_posts a worker is started with (the single-post worker has none)
MaxPostsOf(kind, form) ==
  CASE kind = "keyword" -> PyInt(OrDefault(Strip(form.limit), <<"1", "0", "0">>)).n
    [] kind = "advanced" -> PyInt(OrDefault(Strip(form.limit), <<"5", "0">>)).n
    [] kind = "single" -> 0

\* a thread that has not left its target function
Running(t) == t.at \in {"scraping", "saving"}

\* the handlers as written: nothing in them looks at the workers started
\* before
Click(form) == Accepts(app.kind, form)

\* a click on Start Scrape
Clicked ==
  /\ app.pc = "run"
  /\ app.clicks < MaxClicks
  /\ \E form \in Forms :
       app' = [app EXCEPT
         !.clicks = @ + 1,
         !.errors = IF Click(form) THEN @ ELSE @ + 1,
         !.threads = IF Click(form)
                       THEN Append(@, [at |-> "scraping",
                                       max_posts |-> MaxPostsOf(app.kind, form)])
                       ELSE @]
  /\ UNCHANGED <<file, loopVars, storeVars, inst, extract, download, dom, scrape, browser,
                 images>>

\* FacebookScraperApp.on_scrape_clicked
OnScrapeClicked == app.kind = "keyword" /\ Clicked

\* SinglePostScraperApp._on_start and AdvancedSeleniumScraperApp._on_start
OnStart == app.kind \in {"single", "advanced"} /\ Clicked

\* thread k takes its next step to at, and sets self.data / writes the csv
\* when writes
Step(k, at, writes) ==
  /\ app' = [app EXCEPT
       !.threads[k].at = at,
       !.data = IF writes THEN k ELSE @,
       !.csv = IF writes /\ app.kind # "keyword" THEN k ELSE @]
  /\ UNCHANGED <<file, loopVars, storeVars, inst, extract, download, dom, scrape, browser,
                 images>>

\* FacebookScraperApp._scrape_worker: scrape_group_posts returns or raises,
\* then "self.data = data"
ScrapeWorker(k) ==
  /\ app.pc = "run" /\ app.kind = "keyword"
  /\ k \in 1..Len(app.threads)
  /\ \/ app.threads[k].at = "scraping" /\ \E at \in {"saving", "failed"} : Step(k, at, FALSE)
     \/ app.threads[k].at = "saving" /\ Step(k, "done", TRUE)

\* _run_scrape_thread: the collection returns posts, returns none or raises;
\* then download_images_for_posts, save_posts_to_csv and "self.data = posts"
RunScrapeThread(k) ==
  /\ app.pc = "run" /\ app.kind \in {"single", "advanced"}
  /\ k \in 1..Len(app.threads)
  /\ \/ /\ app.threads[k].at = "scraping"
        /\ \E at \in {"saving", "empty", "failed"} : Step(k, at, FALSE)
     \/ /\ app.threads[k].at = "saving"
        /\ \E ok \in BOOLEAN : Step(k, IF ok THEN "done" ELSE "failed", ok)

InitAppSpec ==
  /\ app \in {[pc |-> "run", kind |-> kind, clicks |-> 0, errors |-> 0, threads |-> <<>>,
                data |-> 0, csv |-> 0] : kind \in Apps}
  /\ file = NoFile
  /\ InitLoop /\ InitStore /\ InitInst /\ InitExtract /\ InitDownload /\ InitDom
  /\ InitScrape /\ InitBrowser /\ InitImages

NextApp ==
  \/ OnScrapeClicked
  \/ OnStart
  \/ \E k \in 1..MaxClicks : ScrapeWorker(k) \/ RunScrapeThread(k)

SpecApp == InitAppSpec /\ [][NextApp]_vars

(***************************************************************************)
(* scrape_group_posts(group, keyword, max_posts, cookies_file): one turn   *)
(* of its for loop over get_posts(...) at a time.                          *)
(***************************************************************************)
\* a post get_posts yields: its "post_text" and "shared_text" values, a
\* string, None or not there, and its "post_url"
Yielded(post_text, shared_text, post_url) ==
  [post_text |-> post_text, shared_text |-> shared_text, post_url |-> post_url]

SourcePool ==
  << Yielded(JStr(<<"A", "b", "c">>), JNull, JStr(<<"u", "1">>)),
     Yielded(JStr(<<" ", "a", NL>>), JStr(<<"B">>), JStr(<<"u", "2">>)),
     Yielded(JNull, JStr(<<"x", "A", "B", " ">>), JNull),
     Yielded(JStr(<<>>), JMissing, JStr(<<"u", "4">>)),
     Yielded(JStr(<<"b">>), JStr(<<>>), JMissing) >>

Keywords ==
  {<<>>, <<" ">>, <<"a">>, <<" ", "A", "B", " ">>, <<"a", " ", "b">>, <<"z">>}

\* (post.get(key) or "")
OrEmpty(v) == IF v.t = "str" THEN v.s ELSE <<>>

\* (text + " " + shared_text).lower()
FullText(post) ==
  Lower(Strip(OrEmpty(post.post_text)) \o <<" ">> \o Strip(OrEmpty(post.shared_text)))

\* the record appended for a post
RecordOf(post) ==
  [post_text |-> Strip(OrEmpty(post.post_text)),
   shared_text |-> Strip(OrEmpty(post.shared_text)),
   post_url |-> OrEmpty(post.post_url)]

\* "if use_filter and keyword not in full_text: continue" does not apply
Passes(keyword, post) == ~(keyword # <<>> /\ ~Occurs(keyword, FullText(post)))

\* the break one record late
ReachedLate(count, max_posts) == count > max_posts

\* if count >= max_posts: break
Reached(count, max_posts) == count >= max_posts

\* one turn of the for loop: get_posts yields the next post or raises
ScrapeNext ==
  /\ scrape.pc = "loop"
  /\ scrape.pos < Len(scrape.source)
  /\ \E raises \in BOOLEAN :
       LET pos == scrape.pos + 1
           post == SourcePool[scrape.source[pos]]
           kept == Passes(scrape.keyword, post)
           count == scrape.count + 1
       IN scrape' =
            IF raises THEN [scrape EXCEPT !.pc = "raised", !.pos = pos]
            ELSE IF ~kept THEN [scrape EXCEPT !.pos = pos]
            ELSE [scrape EXCEPT
                    !.pos = pos,
                    !.result = Append(@, RecordOf(post)),
                    !.taken = Append(@, pos),
                    !.count = count,
                    !.pc = IF Reached(count, scrape.max_posts) THEN "returned" ELSE "loop"]
  /\ UNCHANGED <<file, loopVars, storeVars, inst, extract, download, dom, app, browser,
                 images>>

\* get_posts is exhausted: return result
ScrapeReturn ==
  /\ scrape.pc = "loop"
  /\ scrape.pos = Len(scrape.source)
  /\ scrape' = [scrape EXCEPT !.pc = "returned"]
  /\ UNCHANGED <<file, loopVars, storeVars, inst, extract, download, dom, app, browser,
                 images>>

\* the call: keyword = (keyword or "").strip().lower(); max_posts is the
\* positive number on_scrape_clicked passes
InitScrapeSpec ==
  /\ scrape \in {[pc |-> "loop", given |-> keyword, keyword |-> Lower(Strip(keyword)),
                   max_posts |-> max_posts, source |-> source, pos |-> 0, count |-> 0,
                   result |-> <<>>, taken |-> <<>>] :
                    keyword \in Keywords, max_posts \in 1..MaxLimit,
                    source \in SeqsUpTo(1..Len(SourcePool), MaxSource)}
  /\ file = NoFile
  /\ InitLoop /\ InitStore /\ InitInst /\ InitExtract /\ InitDownload /\ InitDom
  /\ InitApp /\ InitBrowser /\ InitImages

NextScrape == ScrapeNext \/ ScrapeReturn

SpecScrape == InitScrapeSpec /\ [][NextScrape]_vars

(***************************************************************************)
(* selenium_collect_single_post: the Chrome driver from its creation to    *)
(* driver.quit.                                                            *)
(***************************************************************************)
\* post_input as a caller can pass it: None or a string
PostInputs ==
  {JNull, JStr(<<>>), JStr(<<" ", NL>>), JStr(<<"u">>), JStr(<<" ", "u", NL>>),
   JStr(<<"u", " ", "v">>)}

\* cookies: None, an empty list, or a list of cookies
CookieArgs == {"none", "empty", "some"}

\* driver.current_url when the post is extracted: the page can have
\* redirected
CurrentUrls == {<<"u">>, <<"r">>}

\* the body of the try left without a finally clause: an exception leaves
\* the function at once
AfterBodyNoFinally(raised) == IF raised THEN "raised" ELSE "finally"

\* the try statement: however its body ends, the finally clause runs next
AfterBody(raised) == "finally"

\* the call up to webdriver.Chrome(options=chrome_options)
CollectStart ==
  /\ browser.pc = "call"
  /\ LET post_url == Strip(OrEmpty(browser.post_input)) IN
       IF post_url = <<>>
         THEN browser' = [browser EXCEPT !.pc = "returned", !.result = "empty"]
       ELSE \E chrome_raises \in BOOLEAN :
         browser' = IF chrome_raises
                      THEN [browser EXCEPT !.pc = "raised", !.post_url = post_url,
                                           !.at = "chrome"]
                    ELSE [browser EXCEPT !.pc = "navigate", !.post_url = post_url,
                                         !.driver = "open"]
  /\ UNCHANGED <<file, loopVars, storeVars, inst, extract, download, dom, app, scrape,
                 images>>

\* attach_cookies when cookies is a non-empty list, then driver.get
Navigate ==
  /\ browser.pc = "navigate"
  /\ \E at \in {"none", "get"} \cup (IF browser.cookies = "some" THEN {"attach"} ELSE {}) :
       browser' = [browser EXCEPT !.pc = IF at = "none" THEN "extract" ELSE AfterBody(TRUE),
                                  !.at = at,
                                  !.visited = IF at = "none" THEN browser.post_url ELSE @]
  /\ UNCHANGED <<file, loopVars, storeVars, inst, extract, download, dom, app, scrape,
                 images>>

\* extract_single_post_from_dom and the return statements of the try
ExtractOrGiveUp ==
  /\ browser.pc = "extract"
  /\ \/ browser' = [browser EXCEPT !.pc = AfterBody(TRUE), !.at = "extract"]
     \/ browser' = [browser EXCEPT !.pc = AfterBody(FALSE), !.pending = "empty"]
     \/ \E current_url \in CurrentUrls :
          browser' = [browser EXCEPT !.pc = AfterBody(FALSE), !.pending = "post",
                                     !.extracted_url = current_url,
                                     !.returned_url = browser.post_url]
  /\ UNCHANGED <<file, loopVars, storeVars, inst, extract, download, dom, app, scrape,
                 images>>

\* finally: driver.quit(), which can raise itself
Finally ==
  /\ browser.pc = "finally"
  /\ \E quit_raises \in BOOLEAN :
       browser' = [browser EXCEPT
                     !.driver = "quit",
                     !.quits = @ + 1,
                     !.pc = IF quit_raises \/ browser.at # "none" THEN "raised"
                            ELSE "returned",
                     !.at = IF quit_raises THEN "quit" ELSE @,
                     !.result = IF quit_raises \/ browser.at # "none" THEN "none"
                                ELSE browser.pending]
  /\ UNCHANGED <<file, loopVars, storeVars, inst, extract, download, dom, app, scrape,
                 images>>

InitBrowserSpec ==
  /\ browser \in {[pc |-> "call", post_input |-> post_input, cookies |-> cookies,
                    post_url |-> <<>>, driver |-> "none", quits |-> 0, at |-> "none",
                    visited |-> <<>>, pending |-> "none", extracted_url |-> <<>>,
                    returned_url |-> <<>>, result |-> "none"] :
                     post_input \in PostInputs, cookies \in CookieArgs}
  /\ file = NoFile
  /\ InitLoop /\ InitStore /\ InitInst /\ InitExtract /\ InitDownload /\ InitDom
  /\ InitApp /\ InitScrape /\ InitImages

NextBrowser == CollectStart \/ Navigate \/ ExtractOrGiveUp \/ Finally

SpecBrowser == InitBrowserSpec /\ [][NextBrowser]_vars

(***************************************************************************)
(* download_images_for_posts: the loop over the posts and, for each post,  *)
(* over its image urls.                                                    *)
(***************************************************************************)
InlineUri == <<"d", "a", "t", "a", ":", "x">>

\* a post as the collectors hand it over: image_urls is a list of urls, or
\* the key is missing
GivenPost(image_urls) == [image_urls |-> image_urls, image_paths |-> JMissing]

GivenPosts ==
  << GivenPost(JMissing),
     GivenPost(JList(<<>>)),
     GivenPost(JList(<<InlineUri, ImgX>>)),
     GivenPost(JList(<<ImgX, UrlPng>>)),
     GivenPost(JList(<<ImgX, InlineUri, UrlPng>>)) >>

\* post.get("image_urls") or []
UrlsOf(post) == IF post.image_urls.t = "list" THEN post.image_urls.l ELSE <<>>

\* str((img_dir / f"post_{i}_img{j}.jpg").resolve())
ImgDir == <<"/", "s", "/", "f", "b", "_", "i", "m", "a", "g", "e", "s", "/">>

FileNameOf(i, j) ==
  ImgDir \o <<"p", "o", "s", "t", "_">> \o IntToStr(i) \o <<"_", "i", "m", "g">>
    \o IntToStr(j) \o <<".", "j", "p", "g">>

\* ";".join(paths)
RECURSIVE JoinPaths(_)
JoinPaths(paths) ==
  IF paths = <<>> THEN <<>>
  ELSE IF Len(paths) = 1 THEN paths[1]
  ELSE paths[1] \o <<";">> \o JoinPaths(Tail(paths))

\* what can happen to one image url inside the try
ImageFates == {"ok", "non200", "get_raises", "open_raises", "write_raises"}

Raising == {"get_raises", "open_raises", "write_raises"}

\* the loop over the urls without its except clause
OnImageErrorUncaught(fate) == IF fate \in Raising THEN "raised" ELSE "url"

\* except Exception: ... continue
OnImageError(fate) == "url"

\* the call up to the loop over the posts; img_dir.mkdir is outside any try
DownloadImagesStart ==
  /\ images.pc = "call"
  /\ IF images.posts = <<>> THEN images' = [images EXCEPT !.pc = "returned"]
     ELSE \E mkdir_raises \in BOOLEAN :
       images' = IF mkdir_raises THEN [images EXCEPT !.pc = "raised", !.at = "mkdir"]
                 ELSE [images EXCEPT !.pc = "post", !.i = 1]
  /\ UNCHANGED <<file, loopVars, storeVars, inst, extract, download, dom, app, scrape,
                 browser>>

\* the head of the loop over the posts
NextGivenPost ==
  /\ images.pc = "post"
  /\ LET i == images.i IN
       IF i > Len(images.posts) THEN images' = [images EXCEPT !.pc = "returned"]
       ELSE IF UrlsOf(images.posts[i]) = <<>>
         THEN images' = [images EXCEPT !.posts[i].image_paths = JStr(<<>>), !.i = i + 1]
       ELSE images' = [images EXCEPT !.pc = "url", !.j = 1, !.local_paths = <<>>]
  /\ UNCHANGED <<file, loopVars, storeVars, inst, extract, download, dom, app, scrape,
                 browser>>

\* one pass of the loop over the urls of posts[i]; after the last url,
\* post["image_paths"] = ";".join(local_paths)
NextImageUrl ==
  /\ images.pc = "url"
  /\ LET i == images.i
         j == images.j
         urls == UrlsOf(images.posts[i])
     IN IF j > Len(urls)
          THEN images' = [images EXCEPT !.posts[i].image_paths = JStr(JoinPaths(images.local_paths)),
                                        !.i = i + 1, !.pc = "post"]
        ELSE IF IsDataUri(urls[j]) THEN images' = [images EXCEPT !.j = j + 1]
        ELSE \E fate \in ImageFates :
          images' = [images EXCEPT
                       !.requests = Append(@, [i |-> i, j |-> j, ok |-> fate = "ok"]),
                       !.files = IF fate \in {"ok", "write_raises"}
                                   THEN @ \cup {[name |-> FileNameOf(i, j),
                                                  whole |-> fate = "ok"]}
                                 ELSE @,
                       !.local_paths = IF fate = "ok" THEN Append(@, FileNameOf(i, j)) ELSE @,
                       !.at = IF OnImageError(fate) = "raised" THEN "image" ELSE @,
                       !.j = j + 1,
                       !.pc = OnImageError(fate)]
  /\ UNCHANGED <<file, loopVars, storeVars, inst, extract, download, dom, app, scrape,
                 browser>>

InitImagesSpec ==
  /\ images \in {[pc |-> "call", posts |-> [k \in 1..Len(picks) |-> GivenPosts[picks[k]]],
                   i |-> 0, j |-> 0, local_paths |-> <<>>, requests |-> <<>>,
                   files |-> {}, at |-> "none"] :
                    picks \in SeqsUpTo(1..Len(GivenPosts), MaxGiven)}
  /\ file = NoFile
  /\ InitLoop /\ InitStore /\ InitInst /\ InitExtract /\ InitDownload /\ InitDom
  /\ InitApp /\ InitScrape /\ InitBrowser

NextImages == DownloadImagesStart \/ NextGivenPost \/ NextImageUrl

SpecImages == InitImagesSpec /\ [][NextImages]_vars

(***************************************************************************)
(* Properties.                                                             *)
(***************************************************************************)
\* the ids a cycle starting with state file f takes as seen
FileIds(f) == SetOf(LoadSeenPosts(f).ids)

\* the ids of a batch, in batch order, and as a set
IdSeq(batch) == [k \in 1..Len(batch) |-> PostId(batch[k])]

Ids(batch) == {PostId(batch[k]) : k \in 1..Len(batch)}

CallCount(c, id) == IF id \in DOMAIN c THEN c[id] ELSE 0

\* a step is a cycle of run_once
IsCycle == cycle' = cycle + 1

\* the loop of the latest cycle ran over the whole batch
LoopCompleted(how) == how \in {"no_new", "saved", "save_error"}

\* the elements of ids at the positions in K, in order
RECURSIVE SubAt(_, _, _)
SubAt(ids, K, k) ==
  IF k > Len(ids) THEN <<>>
  ELSE (IF k \in K THEN <<ids[k]>> ELSE <<>>) \o SubAt(ids, K, k + 1)

StrictlySorted(ids) == \A k \in 1..(Len(ids) - 1) : StrLess(ids[k], ids[k + 1])

\* C1: when a cycle has saved its batch, a following cycle that fetches a
\* batch with the same post ids finds no new post, processes none and does
\* not write the state file.
C1_IdempotentDedup ==
  [][(IsCycle /\ outcome = "saved" /\ status' = 200 /\ Ids(posts') = Ids(posts))
       => /\ outcome' = "no_new"
          /\ new_ids' = <<>>
          /\ calls' = calls
          /\ file' = file
          /\ wrote' = FALSE]_vars

\* the second cycle found nothing new in a batch whose ids are exactly the
\* ids the first cycle processed
C1_Witness ==
  /\ cycle = 2
  /\ outcome = "no_new"
  /\ ~wrote
  /\ Cardinality(DOMAIN calls) = 2
  /\ DOMAIN calls = Ids(posts) \ {<<>>}
  /\ \A id \in DOMAIN calls : calls[id] = 1

\* C2: over all cycles of the polling loop, process_post works through the
\* post of each id at most once.
C2_ProcessedAtMostOnce == \A id \in DOMAIN calls : calls[id] <= 1

\* C3 as stated: the new ids of a cycle are the ids of the batch that are
\* not in the loaded seen-set, in batch order.
C3_NewAreUnseenInOrder ==
  [][(IsCycle /\ status' = 200 /\ posts' # <<>>)
       => new_ids' = SubAt(IdSeq(posts'),
                           {k \in 1..Len(posts') : PostId(posts'[k]) \notin FileIds(file)}, 1)]_vars

\* the first occurrences in batch of the non-empty ids that are not in seen
FirstUnseen(batch, seen) ==
  SubAt(IdSeq(batch),
        {k \in 1..Len(batch) :
           /\ PostId(batch[k]) # <<>>
           /\ PostId(batch[k]) \notin seen
           /\ \A j \in 1..(k - 1) : PostId(batch[j]) # PostId(batch[k])}, 1)

\* C3, amended: when the loop of run_once runs to its end, the new ids are
\* the first occurrences of the non-empty ids of the batch that are not in
\* the loaded seen-set, in batch order, and exactly their posts were
\* processed; when process_post raises they are a prefix of that list.
C3_NewAreFirstUnseenInOrder ==
  [][(IsCycle /\ status' = 200 /\ posts' # <<>>)
       => /\ LoopCompleted(outcome') => new_ids' = FirstUnseen(posts', FileIds(file))
          /\ IsPrefix(new_ids', FirstUnseen(posts', FileIds(file)))
          /\ \A id \in Ids(posts') \cup DOMAIN calls' :
               CallCount(calls', id)
                 = CallCount(calls, id) + Cardinality({k \in 1..Len(new_ids') : new_ids'[k] = id})]_vars

\* of a batch of three posts the first and the third were new, and they were
\* taken in batch order, which is not sorted order
C3_Witness ==
  /\ outcome = "saved"
  /\ Len(posts) = 3
  /\ new_ids = <<PostId(posts[1]), PostId(posts[3])>>
  /\ PostId(posts[2]) # <<>>
  /\ PostId(posts[2]) \notin SetOf(new_ids)
  /\ StrLess(new_ids[2], new_ids[1])

\* C4: the empty id is never among the new ids, never processed and never
\* in the state file.
C4_EmptyIdExcluded ==
  /\ <<>> \notin SetOf(new_ids)
  /\ <<>> \notin DOMAIN calls
  /\ <<>> \notin FileIds(file)
  /\ (file.exists /\ ~file.locked /\ JsonLoad(file.text).ok /\ JsonLoad(file.text).kind = "list")
       => JStr(<<>>) \notin SetOf(JsonLoad(file.text).items)

\* a batch with a post without id and a post with id "" was saved
C4_Witness ==
  /\ outcome = "saved"
  /\ \E k \in 1..Len(posts) : posts[k].id = JMissing
  /\ \E k \in 1..Len(posts) : posts[k].id = JStr(<<>>)

\* C5: a cycle that ends without raising leaves every id of the state file
\* in the state file.
C5_SeenOnlyGrows ==
  [][(IsCycle /\ outcome' \in {"no_posts", "no_new", "saved"})
       => FileIds(file) \subseteq FileIds(file')]_vars

\* a cycle saved new ids and the file holds more ids than the new ones
C5_Witness ==
  /\ outcome = "saved"
  /\ Len(new_ids) >= 1
  /\ Cardinality(FileIds(file)) >= Len(new_ids) + 2

\* C6: a cycle whose fetch fails (no response, or a status other than 200)
\* leaves the state file as it is and processes no post.
C6_FetchFailureKeepsState ==
  [][(IsCycle /\ status' # 200)
       => /\ outcome' = "fetch_error"
          /\ file' = file
          /\ wrote' = FALSE
          /\ calls' = calls
          /\ new_ids' = <<>>]_vars

\* the fetch of the second cycle failed with a status, after a first cycle
\* that processed and saved
C6_Witness ==
  /\ cycle = 2
  /\ outcome = "fetch_error"
  /\ status = 500
  /\ calls # NoCalls
  /\ FileIds(file) # {}

\* C7: a cycle that adds no new id does not write the state file: the entry
\* is left as it is, and not created.
C7_WriteOnlyIfNew ==
  [][IsCycle
       => /\ new_ids' = <<>> => (file' = file /\ wrote' = FALSE)
          /\ wrote' => new_ids' # <<>>]_vars

\* a non-empty batch brought nothing new and the state file was not created
C7_Witness ==
  /\ outcome = "no_new"
  /\ posts # <<>>
  /\ ~file.exists

\* C8: after a cycle that saved, the state file is a JSON array of strings,
\* strictly ascending, whose elements are the loaded ids and the new ids;
\* its text is the dump of that array, whatever the order of the list
\* handed to save_seen_posts.
C8_CommitSortedUnion ==
  [][(IsCycle /\ outcome' = "saved")
       => LET Ascending(ids) ==
                /\ StrictlySorted(ids)
                /\ SetOf(ids) = FileIds(file) \cup SetOf(new_ids')
                /\ file'.text = JsonDump(ids)
              ArrayOfStrings(data) ==
                /\ file'.exists /\ data.ok /\ data.kind = "list"
                /\ \A k \in 1..Len(data.items) : data.items[k].t = "str"
                /\ Ascending(MapPyStr(data.items))
          IN ArrayOfStrings(JsonLoad(file'.text))]_vars

\* a cycle saved one new id next to two loaded ones
C8_Witness ==
  /\ outcome = "saved"
  /\ Len(new_ids) = 1
  /\ Cardinality(FileIds(file)) = 3
  /\ wrote

\* C9: load_seen_posts after save_seen_posts returns a list with the set of
\* elements of the list saved.
C9_StoreRoundTrip ==
  store_pc = "loaded" => SetOf(loaded) = SetOf(post_ids)

\* a list not in sorted order with an id that needs escaping went through
C9_Witness ==
  /\ store_pc = "loaded"
  /\ Len(post_ids) = 2
  /\ StrLess(post_ids[2], post_ids[1])
  /\ <<QUOTE>> \in SetOf(post_ids)
  /\ Len(loaded) = 2

\* C11: whether save_seen_posts runs to its end or is cut short, a later
\* load_seen_posts returns the ids of the file before the save or the ids
\* handed to the save.
C11_SaveIsAtomic ==
  [][(store_pc = "start" /\ store_pc' \in {"saved", "failed"})
       => FileIds(file') \in {FileIds(file), SetOf(post_ids')}]_vars

\* the ids a watcher holds in memory when it saves
HeldBy(i) == SetOf(inst.w[i].loaded) \cup SetOf(inst.w[i].new_ids)

\* C12: the state file holds exactly what the watcher that saved last had
\* loaded and found new, so the new ids another watcher has saved in
\* between are in the file only if the last one holds them too.
C12_LastWriterWins ==
  \A i \in Instances :
    (inst.w[i].saved /\ inst.w[i].order = inst.commits)
      => /\ FileIds(file) = HeldBy(i)
         /\ \A j \in Instances \ {i} :
              inst.w[j].saved => (SetOf(inst.w[j].new_ids) \ HeldBy(i)) \cap FileIds(file) = {}

\* two watchers have saved, and an id one of them processed and saved is not
\* in the state file
C12_Witness ==
  \E i, j \in Instances :
    /\ i # j
    /\ \A k \in Instances : inst.w[k].pc \in {"idle", "done"}
    /\ inst.w[i].saved /\ inst.w[j].saved
    /\ inst.w[i].order < inst.w[j].order
    /\ \E id \in SetOf(inst.w[i].new_ids) : id \notin FileIds(file)

\* the attachment records of the call in progress
CallRecords == IF extract.shape = "data" THEN Records(extract.picks) ELSE <<>>

\* position of the first occurrence of u in xs
FirstAt(xs, u) == CHOOSE i \in 1..Len(xs) : xs[i] = u /\ \A h \in 1..(i - 1) : xs[h] # u

\* C13: the list extract_images_from_attachments returns has no url twice,
\* holds every url found in the attachments and sub-attachments, and orders
\* them by their first occurrence.
C13_ImagesDedupFirstOccurrence ==
  (extract.pc = "call" /\ extract.images.state = "returned")
    => LET raw == extract.images.raw
           urls == extract.images.urls
       IN /\ \A j, k \in 1..Len(urls) : urls[j] = urls[k] => j = k
          /\ SetOf(urls) = SetOf(raw)
          /\ \A j, k \in 1..Len(urls) :
               j < k => FirstAt(raw, urls[j]) < FirstAt(raw, urls[k])

\* an album whose main image is also a sub-attachment image, with another
\* url found between two occurrences of one url
C13_Witness ==
  /\ extract.pc = "call" /\ extract.images.state = "returned"
  /\ \E k \in 1..Len(extract.picks) : extract.picks[k] = 5
  /\ LET raw == extract.images.raw IN
       /\ \E h, i, j \in 1..Len(raw) : h < i /\ i < j /\ raw[h] = raw[j] /\ raw[h] # raw[i]
       /\ Len(extract.images.urls) < Len(raw)

\* the media of a record, the src of its image and its source, as lists of
\* zero or one url
MediaOf(rec) ==
  IF "media" \in DOMAIN rec.m /\ rec.m.media.t = "map" THEN rec.m.media ELSE EmptyMap

SrcOf(rec) ==
  LET media == MediaOf(rec) IN
  IF "image" \in DOMAIN media.m /\ media.m.image.t = "map"
       /\ "src" \in DOMAIN media.m.image.m
    THEN <<PyStr(media.m.image.m.src)>> ELSE <<>>

SourceOf(rec) ==
  IF "source" \in DOMAIN MediaOf(rec).m THEN <<PyStr(MediaOf(rec).m.source)>> ELSE <<>>

SubRecords(rec) ==
  IF "subattachments" \in DOMAIN rec.m /\ rec.m.subattachments.t = "map"
       /\ "data" \in DOMAIN rec.m.subattachments.m
       /\ rec.m.subattachments.m.data.t = "list"
    THEN rec.m.subattachments.m.data.l ELSE <<>>

\* the one url a record stands for: image.src, or source when there is no src
OneUrl(rec) == IF SrcOf(rec) # <<>> THEN SrcOf(rec) ELSE SourceOf(rec)

RECURSIVE UrlsFrom(_, _)
UrlsFrom(recs, k) ==
  IF k > Len(recs) THEN <<>>
  ELSE OneUrl(recs[k]) \o UrlsFrom(SubRecords(recs[k]), 1) \o UrlsFrom(recs, k + 1)

\* C14: every attachment and sub-attachment record contributes at most one
\* url: media.image.src when the image has a src, media.source only when it
\* has none.
C14_SrcBeforeSource ==
  (extract.pc = "call" /\ extract.images.state = "returned")
    => extract.images.raw = UrlsFrom(CallRecords, 1)

\* a record with both image.src and source, whose source is not returned
C14_Witness ==
  /\ extract.pc = "call" /\ extract.images.state = "returned"
  /\ \E k \in 1..Len(CallRecords) :
       LET rec == CallRecords[k] IN
       /\ SrcOf(rec) # <<>> /\ SourceOf(rec) # <<>>
       /\ SrcOf(rec)[1] \in SetOf(extract.images.urls)
       /\ SourceOf(rec)[1] \notin SetOf(extract.images.urls)

\* the record is a map with a url that is neither missing nor empty
HasUrl(rec) == rec.t = "map" /\ "url" \in DOMAIN rec.m /\ Truthy(rec.m.url)

\* C15: extract_original_link returns the url of the first record that has
\* a non-empty url, and None when there is no such record.
C15_FirstNonEmptyUrl ==
  (extract.pc = "call" /\ extract.link.state = "returned")
    => LET recs == CallRecords
           K == {k \in 1..Len(recs) : HasUrl(recs[k])}
       IN IF K = {} THEN extract.link.value = JNull
          ELSE LET first == CHOOSE k \in K : \A h \in K : k <= h
               IN extract.link.value = JStr(PyStr(recs[first].m.url))

\* the first record has no url or an empty one, the second has a url, and
\* that url is returned
C15_Witness ==
  /\ extract.pc = "call" /\ extract.link.state = "returned"
  /\ Len(CallRecords) >= 2
  /\ CallRecords[1].t = "map" /\ ~HasUrl(CallRecords[1]) /\ HasUrl(CallRecords[2])
  /\ extract.link.value = JStr(PyStr(CallRecords[2].m.url))

\* the element of ElemPool that extract_single_post_from_dom chose
ChosenElem ==
  IF dom.find_raises \/ dom.found = <<>> THEN dom.body ELSE dom.found[dom.result.chosen]

\* C16: when the chosen container has one <img> with src ImgX and its markup
\* also holds the bare url https://cdn/y.jpg, image_urls is ImgX followed by
\* that url.
C16_DomThenRegexUnion ==
  (dom.pc = "done" /\ dom.result.state = "returned" /\ ChosenElem = 1)
    => dom.result.image_urls = <<ImgX, BareY>>

\* C18: download_image never raises; a download that met a status other
\* than 200 or an exception yields None and the loop of process_post goes
\* on to the next url; a path is yielded only with the whole body in that
\* file.
C18_DownloadNeverRaises ==
  download.pc # "idle" =>
    /\ download.pc # "raised"
    /\ Len(download.locals) = download.idx
    /\ \A k \in 1..Len(download.locals) :
         /\ download.fates[k] # "ok" => download.locals[k] = JNull
         /\ download.locals[k] # JNull
              => ImageFile(download.locals[k].s, TRUE) \in download.disk
    /\ download.pc = "done" => download.idx = Len(download.image_urls)

\* the first download failed with an exception, the second one was made
\* all the same and wrote its file
C18_Witness ==
  /\ download.pc = "done"
  /\ Len(download.locals) = 2
  /\ download.fates[1] \in {"mkdir_raises", "get_raises", "open_raises", "write_raises"}
  /\ download.locals[1] = JNull
  /\ download.locals[2] # JNull
  /\ ImageFile(download.locals[2].s, TRUE) \in download.disk

\* C19: a cycle in which run_once raised leaves run_polling_loop waiting,
\* with one more [ERROR] line printed, and from there another cycle can
\* start; the loop is left only by the keyboard interrupt.
C19_FailedCycleKeepsPolling ==
  /\ [][/\ (IsCycle /\ outcome' \in Failures) => (pc' = "sleep" /\ failed' = failed + 1)
        /\ (pc = "sleep" /\ pc' # "sleep") => (pc' = "stopped" /\ cycle' = cycle)]_vars
  /\ []((pc = "sleep" /\ cycle < MaxCycles) => ENABLED PollCycle)

\* a cycle failed, and the cycle after it ran and saved
C19_Witness ==
  /\ pc = "sleep"
  /\ cycle = 2
  /\ failed = 1
  /\ outcome = "saved"

\* the setting is not set, or blank once trimmed
Blank(v) == v.t = "missing" \/ \A k \in 1..Len(v.s) : IsSpace(v.s[k])

\* C20: with FB_GROUP_ID or FB_ACCESS_TOKEN not set or blank, main ends in
\* load_config_from_env: no Config, no cycle, no fetch, and the state file
\* is left alone.
C20_ConfigErrorIsFatal ==
  /\ []((Blank(env.FB_GROUP_ID) \/ Blank(env.FB_ACCESS_TOKEN))
          => /\ pc \in {"start", "exited"}
             /\ config = NoConfig
             /\ cycle = 0 /\ status = 0 /\ outcome = "none"
             /\ ~wrote /\ calls = NoCalls)
  /\ [][(Blank(env.FB_GROUP_ID) \/ Blank(env.FB_ACCESS_TOKEN))
          => (pc' = "exited" /\ file' = file)]_vars

\* main has ended on a group id of white space, the token being set
C20_Witness ==
  /\ pc = "exited"
  /\ env.FB_GROUP_ID = JStr(<<" ", NL>>)
  /\ env.FB_ACCESS_TOKEN = JStr(<<"t">>)

\* the urls of the records whose fields can be read
RECURSIVE UrlsOfSound(_, _)
UrlsOfSound(recs, k) ==
  IF k > Len(recs) THEN <<>>
  ELSE (IF AttUrls(recs[k]).raised THEN <<>> ELSE AttUrls(recs[k]).urls)
         \o UrlsOfSound(recs, k + 1)

\* C17: with a malformed record among the attachments,
\* extract_images_from_attachments returns, and returns the urls of the
\* other records.
C17_MalformedRecordSkipped ==
  (extract.pc = "call" /\ extract.shape = "data" /\ extract.images.state # "pending")
    => /\ extract.images.state = "returned"
       /\ extract.images.urls = DictFromKeys(UrlsOfSound(CallRecords, 1))

\* the state file is absent, cannot be opened, is not JSON or is not an array
Unusable(f) ==
  \/ ~f.exists
  \/ f.locked
  \/ ~JsonLoad(f.text).ok
  \/ JsonLoad(f.text).kind # "list"

\* C10: on an unusable state file load_seen_posts returns the empty list and
\* does not raise, and the cycle takes every post with a non-empty id as new.
C10_LoadFailsSoft ==
  [][(IsCycle /\ Unusable(file))
       => /\ LoadSeenPosts(file) = [raised |-> FALSE, ids |-> <<>>]
          /\ outcome' # "load_error"
          /\ (status' = 200 /\ posts' # <<>>)
               => /\ IsPrefix(new_ids', FirstUnseen(posts', {}))
                  /\ LoopCompleted(outcome') => SetOf(new_ids') = Ids(posts') \ {<<>>}]_vars

\* the file is an object with the key "2", and the post "2" was taken as new
C10_Witness ==
  /\ file = FileOf(TextObject)
  /\ outcome = "process_error"
  /\ new_ids = <<<<"2">>>>


\* C21: at most one scrape worker runs at a time: while a worker started
\* by Start Scrape is running, a further click starts no second one
C21_OneScrapeAtATime ==
  app.pc = "run" =>
    Cardinality({k \in 1..Len(app.threads) : Running(app.threads[k])}) <= 1


\* the keyword of the call, trimmed
Trimmed == Strip(scrape.given)

\* kw occurs in text, letter case aside
ContainsNoCase(kw, text) ==
  \E i \in 1..(Len(text) - Len(kw) + 1) :
    \A j \in 1..Len(kw) : LowerChar(text[i + j - 1]) = LowerChar(kw[j])

RECURSIVE Owners(_, _)
Owners(recs, n) ==
  IF n = 0 THEN 0 ELSE Owners(recs, n - 1) + Len(OneUrl(recs[n]))

\* how many urls the first n attachment records emit, their sub-attachments
\* included
RECURSIVE Emitted(_, _)
Emitted(recs, n) ==
  IF n = 0 THEN 0
  ELSE Emitted(recs, n - 1) + Len(OneUrl(recs[n]))
         + Owners(SubRecords(recs[n]), Len(SubRecords(recs[n])))

\* C23: before deduplication the urls stand record by record in list
\* order: a record's main image first, then the images of its
\* sub-attachments in their list order, then the next record's.
C23_MainThenSubsInOrder ==
  (extract.pc = "call" /\ extract.images.state = "returned")
    => LET raw == extract.images.raw
           recs == CallRecords
       IN /\ Len(raw) = Emitted(recs, Len(recs))
          /\ \A k \in 1..Len(recs) :
               LET base == Emitted(recs, k - 1)
                   main == OneUrl(recs[k])
                   subs == SubRecords(recs[k])
               IN /\ main # <<>> => raw[base + 1] = main[1]
                  /\ \A j \in 1..Len(subs) :
                       OneUrl(subs[j]) # <<>> =>
                         raw[base + Len(main) + Owners(subs, j)] = OneUrl(subs[j])[1]

\* an album with a main image and three sub-attachment images, followed by
\* a record with another image
C23_Witness ==
  /\ extract.pc = "call" /\ extract.images.state = "returned"
  /\ extract.picks = <<5, 4>>
  /\ extract.images.raw = <<UrlB, UrlB, UrlC, UrlA, UrlC>>


\* the article containers on the page when the lookup finds some
PageArticles ==
  IF dom.find_raises THEN <<>> ELSE [k \in 1..Len(dom.found) |-> ElemPool[dom.found[k]]]

\* the markup of an element
MarkupOf(e) == IF e.html.t = "str" THEN e.html.s ELSE <<>>

\* C24: every image url the expression finds in the markup of the page, in
\* the chosen container or outside it, is in the returned image_urls.
C24_RegexScansWholePage ==
  (dom.pc = "done" /\ dom.result.state = "returned")
    => \A k \in 1..Len(PageArticles) :
         LET matches == FindAll(MarkupOf(PageArticles[k]), 1) IN
         \A m \in 1..Len(matches) :
           Unescape(matches[m], 1) \in SetOf(dom.result.image_urls)


\* the urls the expression finds in the markup of the chosen container
ChosenMatches ==
  LET matches == FindAll(MarkupOf(ElemPool[ChosenElem]), 1) IN
  {Unescape(matches[m], 1) : m \in 1..Len(matches)}

\* C25: every returned url that the expression did not find is the src of
\* an <img> element of the chosen container; no returned url is empty or
\* starts with "data:"; no url is returned twice.
C25_DomPassClean ==
  (dom.pc = "done" /\ dom.result.state = "returned")
    => LET urls == dom.result.image_urls
           chosen == ElemPool[ChosenElem]
       IN /\ \A k \in 1..Len(urls) :
               /\ urls[k] # <<>>
               /\ ~IsPrefix(<<"d", "a", "t", "a", ":">>, urls[k])
               /\ urls[k] \notin ChosenMatches =>
                    /\ ~chosen.find_raises
                    /\ \E j \in 1..Len(chosen.srcs) : chosen.srcs[j] = JStr(urls[k])
          /\ \A j, k \in 1..Len(urls) : urls[j] = urls[k] => j = k

\* the chosen container has an inline icon, an <img> without src and one
\* image twice, and another container on the page has another image
C25_Witness ==
  /\ dom.pc = "done" /\ dom.result.state = "returned"
  /\ dom.found = <<5, 8>>
  /\ dom.result.chosen = 1
  /\ dom.result.image_urls = <<ImgX>>


\* the ids of the posts process_post has worked through in this step
ProcessedNow == {id \in DOMAIN calls' : calls'[id] > CallCount(calls, id)}

\* C26: an id enters the state file only when process_post has returned for
\* its post without raising: the ids a cycle adds to the file are ids of
\* posts processed in that cycle, and a cycle that process_post aborts
\* leaves the file as it was.
C26_PersistedOnlyAfterProcessed ==
  [][IsCycle =>
       /\ (FileIds(file') \ FileIds(file)) \subseteq ProcessedNow
       /\ outcome' = "process_error" => file' = file]_vars

\* a cycle over a batch with a post already in the file has saved the ids
\* of the posts it processed
C26_Witness ==
  /\ cycle = 1 /\ outcome = "saved"
  /\ Len(new_ids) = 2
  /\ Len(posts) = 3
  /\ \A k \in 1..Len(new_ids) :
       new_ids[k] \in FileIds(file) /\ CallCount(calls, new_ids[k]) = 1


\* how often x occurs in the list ids
CountIn(ids, x) == Cardinality({k \in 1..Len(ids) : ids[k] = x})

\* C27: an id that the fetched batch holds more than once is handed to
\* process_post at most once in the cycle and appears at most once in
\* new_ids; when the id is new and the loop runs over the whole batch, it is
\* processed exactly once and is in new_ids exactly once.
C27_DuplicatesProcessedOnce ==
  [][IsCycle =>
       LET Once(ids, seen) ==
             \A k \in 1..Len(ids) :
               (\E h \in 1..Len(ids) : h # k /\ ids[h] = ids[k]) =>
                 LET id == ids[k]
                     done == CallCount(calls', id) - CallCount(calls, id)
                 IN /\ done <= 1
                    /\ CountIn(new_ids', id) <= 1
                    /\ (LoopCompleted(outcome') /\ id # <<>> /\ id \notin seen)
                         => (done = 1 /\ CountIn(new_ids', id) = 1)
       IN Once(IdSeq(posts'), FileIds(file))]_vars

\* a batch held a new id twice and another new id between the two; the
\* cycle processed each once
C27_Witness ==
  /\ cycle = 1 /\ outcome = "saved"
  /\ Len(posts) = 3
  /\ PostId(posts[1]) = PostId(posts[3])
  /\ PostId(posts[1]) # PostId(posts[2])
  /\ new_ids = <<PostId(posts[1]), PostId(posts[2])>>
  /\ \A k \in 1..2 : CallCount(calls, new_ids[k]) = 1


\* the value of an environment variable after .strip(), "" when not set
Setting(name) == Getenv(env, name)

\* s is an integer literal: an optional sign, then digits, single
\* underscores allowed between digits
IsIntLiteral(s) ==
  LET body == IF s # <<>> /\ s[1] \in {"+", "-"} THEN Tail(s) ELSE s
  IN /\ body # <<>>
     /\ \A k \in 1..Len(body) :
          \/ IsDigit(body[k])
          \/ /\ body[k] = "_" /\ k > 1 /\ k < Len(body)
             /\ IsDigit(body[k - 1]) /\ IsDigit(body[k + 1])

\* C28: whatever the two numeric settings hold, the loaded Config has
\* poll_interval_sec >= 10 and page_size within 1..100; a setting that is
\* not an integer gives 60 and 25, and so does one that is not set or blank.
C28_NumericSettingsBounded ==
  (pc \in {"sleep", "crashed"}) =>
    /\ config.poll_interval_sec >= 10
    /\ config.page_size \in 1..100
    /\ ~IsIntLiteral(Setting("FB_POLL_INTERVAL_SEC")) => config.poll_interval_sec = 60
    /\ ~IsIntLiteral(Setting("FB_PAGE_SIZE")) => config.page_size = 25

\* both settings held "-9": the interval was raised to 10, the page size to 1
C28_Witness ==
  /\ pc = "sleep"
  /\ env.FB_POLL_INTERVAL_SEC = JStr(<<"-", "9">>)
  /\ env.FB_PAGE_SIZE = JStr(<<"-", "9">>)
  /\ config.poll_interval_sec = 10
  /\ config.page_size = 1


\* selenium_collect_single_post has returned or raised
Exited == browser.pc \in {"returned", "raised"}

\* C29: once webdriver.Chrome has given a driver, the call does not end
\* without driver.quit having been called, whether a post was extracted,
\* none was found, or attach_cookies, driver.get or the extraction raised;
\* for a None, empty or blank post_input the call returns an empty list and
\* creates no driver; a returned post has as post_url the URL given in
\* post_input (its surrounding whitespace removed, which is how the callers
\* pass it), not the URL the page ended on.
C29_BrowserReleased ==
  /\ (Exited /\ browser.driver # "none") => (browser.driver = "quit" /\ browser.quits = 1)
  /\ (Exited /\ Strip(OrEmpty(browser.post_input)) = <<>>)
       => (browser.pc = "returned" /\ browser.result = "empty" /\ browser.driver = "none")
  /\ (browser.pc = "returned" /\ browser.result = "post")
       => /\ browser.returned_url = Strip(OrEmpty(browser.post_input))
          /\ browser.post_input = JStr(Strip(OrEmpty(browser.post_input)))
               => JStr(browser.returned_url) = browser.post_input

\* driver.get raised after the cookies were attached, and the driver was quit
C29_Witness ==
  /\ browser.pc = "raised"
  /\ browser.at = "get"
  /\ browser.cookies = "some"
  /\ browser.driver = "quit"
  /\ browser.quits = 1


\* the urls of the given posts that are not inline data, as <<i, j>>, post
\* by post and url by url
RECURSIVE Fetchable(_, _, _)
Fetchable(given, i, j) ==
  IF i > Len(given) THEN <<>>
  ELSE IF j > Len(UrlsOf(given[i])) THEN Fetchable(given, i + 1, 1)
  ELSE (IF IsPrefix(<<"d", "a", "t", "a", ":">>, UrlsOf(given[i])[j]) THEN <<>>
        ELSE <<<<i, j>>>>) \o Fetchable(given, i, j + 1)

\* the files of post i whose response was 200 and whose body was written,
\* in url order
RECURSIVE WrittenFor(_, _, _)
WrittenFor(requests, i, k) ==
  IF k > Len(requests) THEN <<>>
  ELSE (IF requests[k].i = i /\ requests[k].ok
          THEN <<FileNameOf(i, requests[k].j)>> ELSE <<>>) \o WrittenFor(requests, i, k + 1)

\* the paths in a ";"-separated string
RECURSIVE SplitPaths(_, _)
SplitPaths(text, word) ==
  IF text = <<>> THEN (IF word = <<>> THEN <<>> ELSE <<word>>)
  ELSE IF Head(text) = ";" THEN <<word>> \o SplitPaths(Tail(text), <<>>)
  ELSE SplitPaths(Tail(text), Append(word, Head(text)))

\* C30: no fate of an image url (a non-200 response, an exception of the
\* request, of open or of write) ends the call; when the call returns, every
\* url that is not inline data has been requested, post by post and url by
\* url, every given post has image_paths, which lists exactly the files
\* written whole for that post in url order, and it is the empty string for a
\* post without image urls.
C30_ImageFailuresIsolated ==
  /\ images.pc = "raised" => (images.at = "mkdir" /\ images.requests = <<>>)
  /\ images.pc = "returned" =>
       LET Listed(i) == SplitPaths(images.posts[i].image_paths.s, <<>>) IN
       /\ [k \in 1..Len(images.requests) |-> <<images.requests[k].i, images.requests[k].j>>]
            = Fetchable(images.posts, 1, 1)
       /\ \A i \in 1..Len(images.posts) :
            /\ images.posts[i].image_paths.t = "str"
            /\ Listed(i) = WrittenFor(images.requests, i, 1)
            /\ \A k \in 1..Len(Listed(i)) :
                 [name |-> Listed(i)[k], whole |-> TRUE] \in images.files
            /\ UrlsOf(images.posts[i]) = <<>> => images.posts[i].image_paths.s = <<>>
       /\ \A f \in images.files :
            f.whole => \E i \in 1..Len(images.posts) : f.name \in SetOf(Listed(i))

\* the write of the first image of the first post raised and left a partial
\* file; its second image was still requested and written, and the second
\* post, with no urls, got the empty string
C30_Witness ==
  /\ images.pc = "returned"
  /\ Len(images.posts) = 2
  /\ Len(images.requests) = 2
  /\ ~images.requests[1].ok
  /\ [name |-> FileNameOf(1, 1), whole |-> FALSE] \in images.files
  /\ images.requests[2].ok
  /\ images.posts[1].image_paths = JStr(FileNameOf(1, 2))
  /\ images.posts[2].image_paths = JStr(<<>>)

=============================================================================
